---------------------------- MODULE Spec2Model ----------------------------
(*
  Body Composition Analysis Engine (src/features/photoanalysis): the hash
  generator, the body signature ID generator, the body type classifier and
  aesthetic scorer, and the confidence scorer.

  Numbers.  The program computes with IEEE-754 doubles written as short
  decimals.  A double is modelled by the decimal it was written as, held as
  an integer count of a fixed unit (hundredths of a centimetre, thousandths
  of a ratio, ...).  Where the outcome of the program depends on the binary
  representation error of such a decimal (a rounding tie, a comparison of a
  difference against a threshold it equals in decimal), the error is
  computed exactly: see ErrNum.
*)
EXTENDS Integers, Sequences, FiniteSets

VARIABLES
    limiter, \* the RateLimiterMiddleware and the requests it has handled, or None
    pool, \* the call of parallel_execute in progress, or None
    retry, \* the call of a function wrapped by ErrorHandler.with_retry, or None
    scanCall, \* last assemble_scan_result or generate_quick_summary call, or None
    now,         \* wall clock, advanced by every call
    hashCalls,   \* log of generate_composition_hash calls, oldest first
    hashCheck,   \* last call of a checking function of hash_generator.py, or None
    sigCall,     \* last generate_body_signature_id call, or None
    parseCall,   \* last parse_body_signature_id call, or None
    typeCall,    \* last classify_body_type call, or None
    goldenCalls, \* log of calculate_golden_ratio_score calls, oldest first
    scoreCall,   \* last calculate_aesthetic_score call, or None
    confCall,    \* last call of a method of ConfidenceScorer, or None
    ratioCall,   \* last call of a function of ratio_calculator.py, or None
    compareCall, \* last compare_scans or compare_signature_ids call, or None
    validationCall \* last validate_scan_result call, or None

vars == <<limiter, pool, retry, scanCall, now, hashCalls, hashCheck, sigCall, parseCall, typeCall, goldenCalls,
          scoreCall, confCall, ratioCall, compareCall, validationCall>>

None == [none |-> TRUE]

-----------------------------------------------------------------------------
(* Decimals and their doubles *)

Abs(x) == IF x < 0 THEN -x ELSE x

Min(a, b) == IF a <= b THEN a ELSE b

Max(a, b) == IF a >= b THEN a ELSE b

RECURSIVE Pow2Mod(_, _)
\* 2^p mod m, for p >= 0
Pow2Mod(p, m) == IF p = 0 THEN 1 % m ELSE (2 * Pow2Mod(p - 1, m)) % m

RECURSIVE Pow2(_)
Pow2(n) == IF n = 0 THEN 1 ELSE 2 * Pow2(n - 1)

RECURSIVE BinExpUp(_, _, _)
\* for k >= scale: the e >= 0 with 2^e <= k/scale < 2^(e+1)
BinExpUp(k, scale, e) ==
    IF k < 2 * scale * Pow2(e) THEN e ELSE BinExpUp(k, scale, e + 1)

RECURSIVE BinExpDown(_, _, _)
\* for 0 < k < scale: the n >= 1 with 2^(-n) <= k/scale < 2^(-n+1)
BinExpDown(k, scale, n) ==
    IF k * Pow2(n) >= scale THEN n ELSE BinExpDown(k, scale, n + 1)

\* the binary exponent e of the decimal k/scale > 0: 2^e <= k/scale < 2^(e+1)
BinExp(k, scale) ==
    IF k >= scale THEN BinExpUp(k, scale, 0) ELSE 0 - BinExpDown(k, scale, 1)

\* The double nearest to k/scale is m * 2^(-p) with p = 52 - e (53 significant
\* bits).  FracBits is p.
FracBits(k, scale) == 52 - BinExp(k, scale)

\* double(k/scale) - k/scale, in units of 2^(-FracBits) / scale: with
\* N = k * 2^p and r = N mod scale, the double is floor(N/scale) * 2^(-p) when
\* 2r < scale (error -r) and (floor(N/scale) + 1) * 2^(-p) when 2r > scale
\* (error scale - r).  2r = scale cannot happen for p >= 1 and scale in
\* {10, 100, 1000} other than through r = 0.
ErrNum(k, scale) ==
    IF k = 0 THEN 0
    ELSE LET r == ((k % scale) * Pow2Mod(FracBits(k, scale), scale)) % scale
         IN  IF 2 * r < scale THEN 0 - r ELSE scale - r

\* Python's round(x, n) and format(x, ".nf") on the double of k/(unit*10):
\* the nearest multiple of 10 units of the exact binary value, an exact tie
\* (the decimal is a double) going to the even neighbour.
RoundDiv10(k, scale) ==
    LET q == k \div 10
        r == k % 10
        e == ErrNum(k, scale)
    IN  IF r < 5 THEN q
        ELSE IF r > 5 THEN q + 1
        ELSE IF e > 0 THEN q + 1
        ELSE IF e < 0 THEN q
        ELSE IF q % 2 = 0 THEN q ELSE q + 1

-----------------------------------------------------------------------------
(* SHA-256 (hashlib.sha256), on bytes 0..255.  A 32-bit word is the pair
   <<high 16 bits, low 16 bits>>. *)

Bit(x, i) == (x \div Pow2(i)) % 2

Xor4 == [x \in 0..15 |-> [y \in 0..15 |->
           ((Bit(x, 0) + Bit(y, 0)) % 2)
         + ((Bit(x, 1) + Bit(y, 1)) % 2) * 2
         + ((Bit(x, 2) + Bit(y, 2)) % 2) * 4
         + ((Bit(x, 3) + Bit(y, 3)) % 2) * 8]]

And4 == [x \in 0..15 |-> [y \in 0..15 |->
           (Bit(x, 0) * Bit(y, 0))
         + (Bit(x, 1) * Bit(y, 1)) * 2
         + (Bit(x, 2) * Bit(y, 2)) * 4
         + (Bit(x, 3) * Bit(y, 3)) * 8]]

\* a 4-bit table applied to each of the four nibbles of two 16-bit numbers
Nibbles(T, a, b) ==
      T[a \div 4096][b \div 4096] * 4096
    + T[(a \div 256) % 16][(b \div 256) % 16] * 256
    + T[(a \div 16) % 16][(b \div 16) % 16] * 16
    + T[a % 16][b % 16]

Xor32(a, b) == <<Nibbles(Xor4, a[1], b[1]), Nibbles(Xor4, a[2], b[2])>>

And32(a, b) == <<Nibbles(And4, a[1], b[1]), Nibbles(And4, a[2], b[2])>>

Not32(a) == <<65535 - a[1], 65535 - a[2]>>

Add32(a, b) ==
    LET lo == a[2] + b[2]
    IN  <<(a[1] + b[1] + (lo \div 65536)) % 65536, lo % 65536>>

PowTab == [n \in 0..16 |-> Pow2(n)]

\* rotate right by n, 0 < n < 16
RotrSmall(a, n) ==
    << (a[1] \div PowTab[n]) + (a[2] % PowTab[n]) * PowTab[16 - n],
       (a[2] \div PowTab[n]) + (a[1] % PowTab[n]) * PowTab[16 - n] >>

Rotr32(a, n) ==
    IF n < 16 THEN RotrSmall(a, n)
    ELSE IF n = 16 THEN <<a[2], a[1]>>
    ELSE RotrSmall(<<a[2], a[1]>>, n - 16)

\* shift right by n, 0 < n < 16
Shr32(a, n) ==
    << a[1] \div PowTab[n],
       (a[2] \div PowTab[n]) + (a[1] % PowTab[n]) * PowTab[16 - n] >>

ShaK == <<
    <<17034, 12184>>, <<28983, 17553>>, <<46528, 64463>>, <<59829, 56229>>,
    <<14678, 49755>>, <<23025, 4593>>, <<37439, 33444>>, <<43804, 24277>>,
    <<55303, 43672>>, <<4739, 23297>>, <<9265, 34238>>, <<21772, 32195>>,
    <<29374, 23924>>, <<32990, 45566>>, <<39900, 1703>>, <<49563, 61812>>,
    <<58523, 27073>>, <<61374, 18310>>, <<4033, 40390>>, <<9228, 41420>>,
    <<11753, 11375>>, <<19060, 33962>>, <<23728, 43484>>, <<30457, 35034>>,
    <<38974, 20818>>, <<43057, 50797>>, <<45059, 10184>>, <<48985, 32711>>,
    <<50912, 3059>>, <<54695, 37191>>, <<1738, 25425>>, <<5161, 10599>>,
    <<10167, 2693>>, <<11803, 8504>>, <<19756, 28156>>, <<21304, 3347>>,
    <<25866, 29524>>, <<30314, 2747>>, <<33218, 51502>>, <<37490, 11397>>,
    <<41663, 59553>>, <<43034, 26187>>, <<49739, 35696>>, <<51052, 20899>>,
    <<53650, 59417>>, <<54937, 1572>>, <<62478, 13701>>, <<4202, 41072>>,
    <<6564, 49430>>, <<7735, 27656>>, <<10056, 30540>>, <<13488, 48309>>,
    <<14620, 3251>>, <<20184, 43594>>, <<23452, 51791>>, <<26670, 28659>>,
    <<29839, 33518>>, <<30885, 25455>>, <<33992, 30740>>, <<36039, 520>>,
    <<37054, 65530>>, <<42064, 27883>>, <<48889, 41975>>, <<50801, 30962>> >>

ShaH0 == <<
    <<27145, 58983>>, <<47975, 44677>>, <<15470, 62322>>, <<42319, 62778>>,
    <<20750, 21119>>, <<39685, 26764>>, <<8067, 55723>>, <<23520, 52505>> >>

\* the message followed by 0x80, zeros up to 56 mod 64, and the bit length
\* as 8 big-endian bytes (messages here are shorter than 2^13 bytes)
ZeroBytes(n) == [i \in 1..n |-> 0]

ShaPad(msg) ==
    LET bits == Len(msg) * 8
        z    == (119 - (Len(msg) % 64)) % 64
    IN  msg \o <<128>> \o ZeroBytes(z) \o ZeroBytes(5)
            \o << bits \div 65536, (bits \div 256) % 256, bits % 256 >>

\* word i (0..15) of the block starting after byte off
BlockWord(bytes, off, i) ==
    << bytes[off + 4 * i + 1] * 256 + bytes[off + 4 * i + 2],
       bytes[off + 4 * i + 3] * 256 + bytes[off + 4 * i + 4] >>

SmallSigma0(x) == Xor32(Xor32(Rotr32(x, 7), Rotr32(x, 18)), Shr32(x, 3))

SmallSigma1(x) == Xor32(Xor32(Rotr32(x, 17), Rotr32(x, 19)), Shr32(x, 10))

BigSigma0(x) == Xor32(Xor32(Rotr32(x, 2), Rotr32(x, 13)), Rotr32(x, 22))

BigSigma1(x) == Xor32(Xor32(Rotr32(x, 6), Rotr32(x, 11)), Rotr32(x, 25))

Ch(e, f, g) == Xor32(And32(e, f), And32(Not32(e), g))

Maj(a, b, c) == Xor32(Xor32(And32(a, b), And32(a, c)), And32(b, c))

\* v, once evaluated, then e.  TLC evaluates the arguments of an operator
\* when they are first read, which would nest the 64 rounds of a block
\* inside one another; the loops below are split in halves for the same
\* reason (the depth of the evaluation is logarithmic in their length), and
\* a value that is read more than once is an operator argument, which TLC
\* evaluates once.
Strict(v, e) == IF v = v THEN e ELSE e

RECURSIVE Schedule(_, _)
RECURSIVE ScheduleThen(_, _)

\* the next word of the message schedule w, its index being i
ScheduleWord(w, i) ==
    Add32(Add32(w[i - 16], SmallSigma0(w[i - 15])),
          Add32(w[i - 7], SmallSigma1(w[i - 2])))

\* the message schedule: w (16 words or more) extended by n words
Schedule(w, n) ==
    IF n = 1 THEN Append(w, ScheduleWord(w, Len(w) + 1))
    ELSE ScheduleThen(Schedule(w, n \div 2), n - (n \div 2))

ScheduleThen(nw, n) == Strict(nw, Schedule(nw, n))

\* the working variables after a round with temporaries t1 and t2
RoundOut(s, t1, t2) ==
    << Add32(t1, t2), s[1], s[2], s[3], Add32(s[4], t1), s[5], s[6], s[7] >>

\* one round of the compression function on working variables s = a..h
Round(s, wi, ki) ==
    RoundOut(s,
             Add32(Add32(Add32(s[8], BigSigma1(s[5])),
                         Add32(Ch(s[5], s[6], s[7]), ki)), wi),
             Add32(BigSigma0(s[1]), Maj(s[1], s[2], s[3])))

RECURSIVE Rounds(_, _, _, _)
RECURSIVE RoundsThen(_, _, _, _)

\* rounds lo..hi on working variables s
Rounds(s, w, lo, hi) ==
    IF lo = hi THEN Round(s, w[lo], ShaK[lo])
    ELSE RoundsThen(Rounds(s, w, lo, (lo + hi) \div 2), w, ((lo + hi) \div 2) + 1, hi)

RoundsThen(ns, w, lo, hi) == Strict(ns, Rounds(ns, w, lo, hi))

\* the hash value h plus the working variables s, word by word
AddState(h, s) ==
    << Add32(h[1], s[1]), Add32(h[2], s[2]), Add32(h[3], s[3]),
       Add32(h[4], s[4]), Add32(h[5], s[5]), Add32(h[6], s[6]),
       Add32(h[7], s[7]), Add32(h[8], s[8]) >>

\* the sixteen words of the block starting after byte off
BlockWords(bytes, off) ==
    << BlockWord(bytes, off, 0), BlockWord(bytes, off, 1),
       BlockWord(bytes, off, 2), BlockWord(bytes, off, 3),
       BlockWord(bytes, off, 4), BlockWord(bytes, off, 5),
       BlockWord(bytes, off, 6), BlockWord(bytes, off, 7),
       BlockWord(bytes, off, 8), BlockWord(bytes, off, 9),
       BlockWord(bytes, off, 10), BlockWord(bytes, off, 11),
       BlockWord(bytes, off, 12), BlockWord(bytes, off, 13),
       BlockWord(bytes, off, 14), BlockWord(bytes, off, 15) >>

Compress(h, bytes, off) ==
    AddState(h, Rounds(h, Schedule(BlockWords(bytes, off), 48), 1, 64))

RECURSIVE ShaBlocks(_, _, _)
RECURSIVE ShaBlocksThen(_, _, _)

ShaBlocks(h, bytes, off) ==
    IF off >= Len(bytes) THEN h
    ELSE ShaBlocksThen(Compress(h, bytes, off), bytes, off + 64)

ShaBlocksThen(nh, bytes, off) == Strict(nh, ShaBlocks(nh, bytes, off))

\* the digest as eight 32-bit words
Sha256(msg) == ShaBlocks(ShaH0, ShaPad(msg), 0)

\* the first six hexadecimal digits (0..15 each) of the 32-bit word h
HexDigits6(h) ==
    << h[1] \div 4096, (h[1] \div 256) % 16, (h[1] \div 16) % 16, h[1] % 16,
       h[2] \div 4096, (h[2] \div 256) % 16 >>

\* hexdigest()[:6]
HexDigest6(msg) == HexDigits6(Sha256(msg)[1])

-----------------------------------------------------------------------------
(* Strings are sequences of code points; the ones here are ASCII, so that
   str.encode('utf-8') maps each to the byte of the same value. *)

IsDigitChar(c) == c >= 48 /\ c <= 57

IsUpperChar(c) == c >= 65 /\ c <= 90

IsLowerChar(c) == c >= 97 /\ c <= 122

IsAlphaChar(c) == IsUpperChar(c) \/ IsLowerChar(c)

\* str.isalnum(): non-empty and every character a letter or a digit
IsAlnum(s) == Len(s) > 0 /\ \A i \in 1..Len(s) : IsAlphaChar(s[i]) \/ IsDigitChar(s[i])

\* str.isupper(): at least one cased character and no lowercase one
IsUpper(s) ==
    /\ \E i \in 1..Len(s) : IsUpperChar(s[i])
    /\ \A i \in 1..Len(s) : ~IsLowerChar(s[i])

\* str.upper()
Upper(s) == [i \in 1..Len(s) |-> IF IsLowerChar(s[i]) THEN s[i] - 32 ELSE s[i]]

RECURSIVE DigitsOf(_)
\* the decimal digits of n >= 0
DigitsOf(n) == IF n < 10 THEN <<48 + n>> ELSE Append(DigitsOf(n \div 10), 48 + (n % 10))

\* n >= 0 written with exactly w digits (w in 1..3)
Padded(n, w) ==
    IF w = 1 THEN <<48 + n>>
    ELSE IF w = 2 THEN <<48 + (n \div 10), 48 + (n % 10)>>
    ELSE <<48 + (n \div 100), 48 + ((n \div 10) % 10), 48 + (n % 10)>>

Pow10(d) == IF d = 0 THEN 1 ELSE IF d = 1 THEN 10 ELSE IF d = 2 THEN 100 ELSE 1000

\* format(x, ".df") of the decimal num / 10^d (already rounded to d places)
FormatFixed(num, d) == DigitsOf(num \div Pow10(d)) \o <<46>> \o Padded(num % Pow10(d), d)

RECURSIVE StripZeros(_)
\* trailing "0"s removed, one digit kept
StripZeros(s) ==
    IF Len(s) > 1 /\ s[Len(s)] = 48 THEN StripZeros(SubSeq(s, 1, Len(s) - 1)) ELSE s

\* repr(x) of the double nearest to num / 10^d: the shortest decimal that
\* reads back as that double, "105.0", "12.5", "1.56"
ReprFloat(num, d) ==
    DigitsOf(num \div Pow10(d)) \o <<46>> \o StripZeros(Padded(num % Pow10(d), d))

RECURSIVE LexLess(_, _)
\* a < b for strings
LexLess(a, b) ==
    IF Len(b) = 0 THEN FALSE
    ELSE IF Len(a) = 0 THEN TRUE
    ELSE IF a[1] # b[1] THEN a[1] < b[1]
    ELSE LexLess(Tail(a), Tail(b))

RECURSIVE SortByKey(_)

\* the index of the item of least key
MinKeyIndex(items) ==
    CHOOSE i \in 1..Len(items) :
        \A j \in 1..Len(items) : j = i \/ LexLess(items[i][1], items[j][1])

\* item i, then the others sorted
SortFrom(items, i) ==
    <<items[i]>> \o SortByKey(SubSeq(items, 1, i - 1) \o SubSeq(items, i + 1, Len(items)))

\* the items <<key, value>> of a dict in ascending key order (keys differ)
SortByKey(items) ==
    IF Len(items) <= 1 THEN items ELSE SortFrom(items, MinKeyIndex(items))

RECURSIVE JoinItems(_)
\* '"key": value' joined by ', '
JoinItems(items) ==
    IF Len(items) = 0 THEN <<>>
    ELSE LET it == <<34>> \o items[1][1] \o <<34, 58, 32>>
                       \o ReprFloat(items[1][2].num, items[1][2].places)
         IN  IF Len(items) = 1 THEN it ELSE it \o <<44, 32>> \o JoinItems(Tail(items))

\* json.dumps(d, sort_keys=True) of a dict of floats
JsonDumps(items) == <<123>> \o JoinItems(SortByKey(items)) \o <<125>>

-----------------------------------------------------------------------------
(* services/hash_generator.py *)

\* the keys of composition_data, as strings ("calf" is a key of
\* generate_detailed_hash only)
Keys ==
    [ chest |-> <<99, 104, 101, 115, 116>>,
      waist |-> <<119, 97, 105, 115, 116>>,
      hips |-> <<104, 105, 112, 115>>,
      bicep |-> <<98, 105, 99, 101, 112>>,
      thigh |-> <<116, 104, 105, 103, 104>>,
      body_fat |-> <<98, 111, 100, 121, 95, 102, 97, 116>>,
      shoulder_waist_ratio |->
          <<115, 104, 111, 117, 108, 100, 101, 114, 95, 119, 97, 105, 115, 116, 95, 114, 97, 116, 105, 111>>,
      waist_hip_ratio |->
          <<119, 97, 105, 115, 116, 95, 104, 105, 112, 95, 114, 97, 116, 105, 111>>,
      chest_waist_ratio |->
          <<99, 104, 101, 115, 116, 95, 119, 97, 105, 115, 116, 95, 114, 97, 116, 105, 111>>,
      calf |-> <<99, 97, 108, 102>> ]

\* round(x, 1) of a measurement held in hundredths: tenths
Round1(k) == [num |-> RoundDiv10(k, 100), places |-> 1]

\* round(x, 2) of a ratio held in thousandths: hundredths
Round2(k) == [num |-> RoundDiv10(k, 1000), places |-> 2]

\* a composition_data that also holds the optional calf, as
\* generate_detailed_hash builds it
CompositionDataWithCalf(m, r) ==
    << <<Keys.chest, Round1(m.chest_circumference_cm)>>,
       <<Keys.waist, Round1(m.waist_circumference_cm)>>,
       <<Keys.hips, Round1(m.hip_circumference_cm)>>,
       <<Keys.bicep, Round1(m.bicep_circumference_cm)>>,
       <<Keys.thigh, Round1(m.thigh_circumference_cm)>>,
       <<Keys.body_fat, Round1(m.body_fat_percent)>>,
       <<Keys.shoulder_waist_ratio, Round2(r.shoulder_to_waist_ratio)>>,
       <<Keys.waist_hip_ratio, Round2(r.waist_to_hip_ratio)>>,
       <<Keys.chest_waist_ratio, Round2(r.chest_to_waist_ratio)>>,
       <<Keys.calf, Round1(m.calf_circumference_cm)>> >>

\* the dict composition_data of generate_composition_hash, in insertion order
CompositionData(m, r) ==
    << <<Keys.chest, Round1(m.chest_circumference_cm)>>,
       <<Keys.waist, Round1(m.waist_circumference_cm)>>,
       <<Keys.hips, Round1(m.hip_circumference_cm)>>,
       <<Keys.bicep, Round1(m.bicep_circumference_cm)>>,
       <<Keys.thigh, Round1(m.thigh_circumference_cm)>>,
       <<Keys.body_fat, Round1(m.body_fat_percent)>>,
       <<Keys.shoulder_waist_ratio, Round2(r.shoulder_to_waist_ratio)>>,
       <<Keys.waist_hip_ratio, Round2(r.waist_to_hip_ratio)>>,
       <<Keys.chest_waist_ratio, Round2(r.chest_to_waist_ratio)>> >>

\* "0123456789abcdef"[d]
HexChar(d) == IF d < 10 THEN 48 + d ELSE 87 + d

\* hexadecimal digits written as lowercase characters
HexString(ds) == [i \in 1..Len(ds) |-> HexChar(ds[i])]

generate_composition_hash(m, r) ==
    Upper(HexString(HexDigest6(JsonDumps(CompositionData(m, r)))))

validate_hash_format(hash_str) ==
    IF Len(hash_str) = 0 THEN FALSE
    ELSE IF Len(hash_str) # 6 THEN FALSE
    ELSE IF ~IsAlnum(hash_str) THEN FALSE
    ELSE IF ~IsUpper(hash_str) THEN FALSE
    ELSE TRUE

-----------------------------------------------------------------------------
(* Calls of the hash generator.  Measurements are in hundredths (of a
   centimetre, of a percent), ratios in thousandths. *)

MaxCalls == 2

Users == {"u1", "u2"}

HashMeasurements ==
    [ chest_circumference_cm : {10500, 10504},
      waist_circumference_cm : {8000},
      hip_circumference_cm   : {9500},
      bicep_circumference_cm : {3800},
      thigh_circumference_cm : {5800, 6040},
      calf_circumference_cm  : {3800, 4000},
      body_fat_percent       : {1250} ]

HashRatios ==
    [ shoulder_to_waist_ratio : {1560, 1565},
      waist_to_hip_ratio      : {842},
      chest_to_waist_ratio    : {1313} ]

\* generate_composition_hash on every input of the model, computed once
HashTable ==
    { [measurements |-> m, ratios |-> r, hash |-> generate_composition_hash(m, r)] :
          m \in HashMeasurements, r \in HashRatios }

HashOf(m, r) == (CHOOSE t \in HashTable : t.measurements = m /\ t.ratios = r).hash

Init ==
    /\ now = 0
    /\ limiter = None
    /\ pool = None
    /\ retry = None
    /\ scanCall = None
    /\ hashCalls = <<>>
    /\ hashCheck = None
    /\ sigCall = None
    /\ parseCall = None
    /\ typeCall = None
    /\ goldenCalls = <<>>
    /\ scoreCall = None
    /\ confCall = None
    /\ ratioCall = None
    /\ compareCall = None
    /\ validationCall = None

\* a scan of some user u calls generate_composition_hash(m, r)
GenerateCompositionHash ==
    /\ Len(hashCalls) < MaxCalls
    /\ \E u \in Users, m \in HashMeasurements, r \in HashRatios :
           hashCalls' = Append(hashCalls,
               [user |-> u, time |-> now, measurements |-> m, ratios |-> r,
                hash |-> HashOf(m, r)])
    /\ now' = now + 1
    /\ UNCHANGED <<limiter, pool, retry, scanCall, hashCheck, sigCall, parseCall, typeCall, goldenCalls, scoreCall, confCall,
                   ratioCall, compareCall, validationCall>>

\* validate_hash_format on the hash returned by an earlier call
ValidateHashFormat ==
    /\ hashCalls # <<>>
    /\ \E i \in 1..Len(hashCalls) :
           hashCheck' = [hash_str |-> hashCalls[i].hash,
                         result |-> validate_hash_format(hashCalls[i].hash)]
    /\ UNCHANGED <<limiter, pool, retry, scanCall, now, hashCalls, sigCall, parseCall, typeCall, goldenCalls, scoreCall, confCall,
                   ratioCall, compareCall, validationCall>>

NextHash ==
    \/ GenerateCompositionHash
    \/ ValidateHashFormat

SpecHash == Init /\ [][NextHash]_vars

\* the values the hash is specified to depend on: the six measurements
\* rounded to 1 decimal and the three ratios rounded to 2 decimals
RoundedInputs(c) ==
    << Round1(c.measurements.chest_circumference_cm),
       Round1(c.measurements.waist_circumference_cm),
       Round1(c.measurements.hip_circumference_cm),
       Round1(c.measurements.bicep_circumference_cm),
       Round1(c.measurements.thigh_circumference_cm),
       Round1(c.measurements.body_fat_percent),
       Round2(c.ratios.shoulder_to_waist_ratio),
       Round2(c.ratios.waist_to_hip_ratio),
       Round2(c.ratios.chest_to_waist_ratio) >>

\* C1: two calls of generate_composition_hash whose six measurements agree
\* after rounding to 1 decimal and whose three ratios agree after rounding to
\* 2 decimals return the same hash, whatever the other fields, the user, the
\* time and the number of earlier calls.
C1_HashDeterministic ==
    \A i, j \in 1..Len(hashCalls) :
        RoundedInputs(hashCalls[i]) = RoundedInputs(hashCalls[j])
            => hashCalls[i].hash = hashCalls[j].hash

\* two calls, by different users at different times, whose raw chest, calf
\* and shoulder:waist values differ and whose rounded inputs agree
C1_Witness ==
    \E i, j \in 1..Len(hashCalls) :
        /\ hashCalls[i].user # hashCalls[j].user
        /\ hashCalls[i].time # hashCalls[j].time
        /\ hashCalls[i].measurements.chest_circumference_cm
               # hashCalls[j].measurements.chest_circumference_cm
        /\ hashCalls[i].measurements.calf_circumference_cm
               # hashCalls[j].measurements.calf_circumference_cm
        /\ hashCalls[i].ratios.shoulder_to_waist_ratio
               # hashCalls[j].ratios.shoulder_to_waist_ratio
        /\ RoundedInputs(hashCalls[i]) = RoundedInputs(hashCalls[j])
        /\ hashCalls[i].hash = hashCalls[j].hash

\* C9: every hash generate_composition_hash returns is accepted by
\* validate_hash_format.
C9_GeneratedHashIsValid ==
    hashCheck # None => hashCheck.result = TRUE

\* validate_hash_format has been called on a generated hash made of digits
\* only
C9_DigitsOnlyHashChecked ==
    /\ hashCheck # None
    /\ \E i \in 1..Len(hashCalls) : hashCalls[i].hash = hashCheck.hash_str
    /\ \A i \in 1..Len(hashCheck.hash_str) : IsDigitChar(hashCheck.hash_str[i])

-----------------------------------------------------------------------------
(* models/schemas.py: BodyType, and services/id_generator.py *)

\* the members of the enumeration BodyType
BodyType == {"VTAPER", "CLASSIC", "RECTANGULAR", "APPLE", "PEAR", "BALANCED"}

\* BodyType.value
BodyTypeValue(body_type) ==
    CASE body_type = "VTAPER"      -> <<86, 45, 84, 97, 112, 101, 114>>   \* "V-Taper"
      [] body_type = "CLASSIC"     -> <<67, 108, 97, 115, 115, 105, 99>>   \* "Classic"
      [] body_type = "RECTANGULAR" -> <<82, 101, 99, 116, 97, 110, 103, 117, 108, 97, 114>>   \* "Rectangular"
      [] body_type = "APPLE"       -> <<65, 112, 112, 108, 101>>   \* "Apple"
      [] body_type = "PEAR"        -> <<80, 101, 97, 114>>   \* "Pear"
      [] body_type = "BALANCED"    -> <<66, 97, 108, 97, 110, 99, 101, 100>>   \* "Balanced"

\* str.replace(c, ""), c a single character
RemoveChar(s, c) == SelectSeq(s, LAMBDA x : x # c)

\* the value with its spaces removed and its hyphens kept
FormatKeepingHyphens(body_type) == RemoveChar(BodyTypeValue(body_type), 32)

format_body_type(body_type) ==
    RemoveChar(RemoveChar(BodyTypeValue(body_type), 32), 45)

\* the ID with the body fat cut to one decimal in place of rounded
SignatureIdTruncating(body_type, body_fat_percent, composition_hash, adonis_index) ==
    format_body_type(body_type)
        \o <<45>> \o <<66, 70>> \o FormatFixed(body_fat_percent \div 10, 1)
        \o <<45>> \o composition_hash
        \o <<45>> \o <<65, 73>> \o FormatFixed(RoundDiv10(adonis_index, 1000), 2)

\* body_fat_percent in hundredths, adonis_index in thousandths
generate_body_signature_id(body_type, body_fat_percent, composition_hash, adonis_index) ==
    format_body_type(body_type)
        \o <<45>> \o <<66, 70>> \o FormatFixed(RoundDiv10(body_fat_percent, 100), 1)
        \o <<45>> \o composition_hash
        \o <<45>> \o <<65, 73>> \o FormatFixed(RoundDiv10(adonis_index, 1000), 2)

Letters == (65..90) \cup (97..122)   \* [A-Za-z]

Digits == 48..57   \* \d on ASCII text

HexUpper == (65..70) \cup (48..57)   \* [A-F0-9]

Unbounded == 0 - 1

\* a literal character as a pattern element
Lit(c) == [chars |-> {c}, lo |-> 1, hi |-> 1]

\* one or more characters of a class
Plus(cs) == [chars |-> cs, lo |-> 1, hi |-> Unbounded]

\* the pattern of parse_body_signature_id between ^ and $, element by element
SignaturePattern ==
    << Plus(Letters),                                       \* ([A-Za-z]+)
       Lit(45), Lit(66), Lit(70),                           \* -BF
       Plus(Digits), Lit(46), Plus(Digits),                 \* (\d+\.\d+)
       Lit(45),                                             \* -
       [chars |-> HexUpper, lo |-> 6, hi |-> 6],            \* ([A-F0-9]{6})
       Lit(45), Lit(65), Lit(73),                           \* -AI
       Plus(Digits), Lit(46), Plus(Digits) >>               \* (\d+\.\d+)

\* $ before the character at index i: the end of the string, or just before
\* a newline that ends the string
AtDollar(s, i) == i = Len(s) + 1 \/ (i = Len(s) /\ s[i] = 10)

\* the positions after element e that the element starting at i can reach
ElementEnds(e, s, i) ==
    { j \in (i + e.lo)..(IF e.hi = Unbounded THEN Len(s) + 1 ELSE Min(i + e.hi, Len(s) + 1)) :
          \A x \in i..(j - 1) : s[x] \in e.chars }

RECURSIVE Matches(_, _, _, _)
\* every way elements k.. of pat match s from index i up to $: the sequence
\* of the indices after each element
Matches(pat, k, s, i) ==
    IF k > Len(pat) THEN (IF AtDollar(s, i) THEN {<<>>} ELSE {})
    ELSE UNION { { <<j>> \o rest : rest \in Matches(pat, k + 1, s, j) } :
                     j \in ElementEnds(pat[k], s, i) }

\* the match the greedy quantifiers prefer: each element as long as possible,
\* earlier elements first
GreedyMatch(ms) == CHOOSE e \in ms : \A f \in ms : f = e \/ LexLess(f, e)

RECURSIVE DigitsValue(_)
\* the number a non-empty string of digits denotes
DigitsValue(ds) ==
    IF Len(ds) = 1 THEN ds[1] - 48
    ELSE 10 * DigitsValue(SubSeq(ds, 1, Len(ds) - 1)) + (ds[Len(ds)] - 48)

RECURSIVE Canonical(_, _)
\* the number num / 10^places with the fewest decimal places
Canonical(num, places) ==
    IF places > 0 /\ num % 10 = 0 THEN Canonical(num \div 10, places - 1)
    ELSE [num |-> num, places |-> places]

\* float("<digits>.<digits>"): the double nearest to the decimal, which is
\* identified by the decimal itself (the strings here have few digits)
FloatOf(str) ==
    LET dot == CHOOSE i \in 1..Len(str) : str[i] = 46
    IN  Canonical(DigitsValue(SubSeq(str, 1, dot - 1) \o SubSeq(str, dot + 1, Len(str))),
                  Len(str) - dot)

\* the dict parse_body_signature_id builds from the match e
ParsedComponents(signature_id, e) ==
    [ body_type        |-> SubSeq(signature_id, 1, e[1] - 1),
      body_fat_percent |-> FloatOf(SubSeq(signature_id, e[4], e[7] - 1)),
      composition_hash |-> SubSeq(signature_id, e[8], e[9] - 1),
      adonis_index     |-> FloatOf(SubSeq(signature_id, e[12], e[15] - 1)),
      original_id      |-> signature_id ]

\* re.match returned a match among ms, or None
ParseMatch(signature_id, ms) ==
    IF ms = {} THEN None ELSE ParsedComponents(signature_id, GreedyMatch(ms))

parse_body_signature_id(signature_id) ==
    ParseMatch(signature_id, Matches(SignaturePattern, 1, signature_id, 1))

-----------------------------------------------------------------------------
(* Calls of the signature ID generator and parser *)

SigBodyFats == {300, 1525, 6000}   \* hundredths of a percent

SigAdonis == {0, 1618, 12345}   \* thousandths

SigHashes ==
    { <<65, 51, 70, 55, 67, 50>>,   \* "A3F7C2"
      <<53, 54, 53, 56, 48, 53>> }   \* "565805"

\* the pieces of an ID some caller hands to parse_body_signature_id
PieceType ==
    { <<86, 84, 97, 112, 101, 114>>,   \* "VTaper"
      <<86>>,   \* "V"
      <<>>,   \* ""
      <<86, 50>>,   \* "V2"
      <<86, 45, 84, 97, 112, 101, 114>>,   \* "V-Taper"
      <<32, 86, 84, 97, 112, 101, 114>> }   \* " VTaper"

PieceBodyFat ==
    { <<45, 66, 70, 49, 53, 46, 53>>,   \* "-BF15.5"
      <<45, 66, 70, 48, 49, 53, 46, 53, 48>>,   \* "-BF015.50"
      <<45, 66, 70, 49, 53>>,   \* "-BF15"
      <<45, 66, 70, 46, 53>>,   \* "-BF.5"
      <<45, 98, 102, 49, 53, 46, 53>>,   \* "-bf15.5"
      <<66, 70, 49, 53, 46, 53>>,   \* "BF15.5"
      <<45, 66, 70, 49, 53, 46, 53, 46, 53>> }   \* "-BF15.5.5"

PieceHash ==
    { <<45, 65, 51, 70, 55, 67, 50>>,   \* "-A3F7C2"
      <<45, 49, 50, 51, 52, 53, 54>>,   \* "-123456"
      <<45, 97, 51, 102, 55, 99, 50>>,   \* "-a3f7c2"
      <<45, 65, 51, 70, 55, 67>>,   \* "-A3F7C"
      <<45, 65, 51, 70, 55, 67, 50, 68>>,   \* "-A3F7C2D"
      <<45, 65, 51, 70, 55, 67, 71>> }   \* "-A3F7CG"

PieceAdonis ==
    { <<45, 65, 73, 49, 46, 53, 52>>,   \* "-AI1.54"
      <<45, 65, 73, 49>>,   \* "-AI1"
      <<45, 65, 73, 49, 46>>,   \* "-AI1."
      <<45, 65, 73, 49, 46, 53, 120>>,   \* "-AI1.5x"
      <<45, 97, 105, 49, 46, 53, 52>>,   \* "-ai1.54"
      <<45, 65, 73, 45, 49, 46, 53, 52>> }   \* "-AI-1.54"

PieceTail ==
    { <<>>,   \* ""
      <<10>>,   \* "\n"
      <<10, 10>>,   \* "\n\n"
      <<120>> }   \* "x"

\* "VTaper", "-BF15.5", "-A3F7C2", "-AI1.54", "": the pieces of a well-formed ID
GoodPieces == <<<<86, 84, 97, 112, 101, 114>>, <<45, 66, 70, 49, 53, 46, 53>>, <<45, 65, 51, 70, 55, 67, 50>>, <<45, 65, 73, 49, 46, 53, 52>>, <<>>>>

PieceSets == <<PieceType, PieceBodyFat, PieceHash, PieceAdonis, PieceTail>>

Join5(ps) == ps[1] \o ps[2] \o ps[3] \o ps[4] \o ps[5]

\* the well-formed ID with one piece replaced, followed by any tail
ExternalIds ==
    UNION { { Join5([[GoodPieces EXCEPT ![k] = v] EXCEPT ![5] = tl]) :
                  v \in PieceSets[k], tl \in PieceTail } : k \in 1..4 }

\* every call generate_body_signature_id(bt, bf, h, ai) of the model, with
\* the ID it returns
SigCalls ==
    { [ body_type |-> bt, body_fat_percent |-> bf, composition_hash |-> h,
        adonis_index |-> ai,
        signature_id |-> generate_body_signature_id(bt, bf, h, ai) ] :
          bt \in BodyType, bf \in SigBodyFats, h \in SigHashes, ai \in SigAdonis }

\* every call parse_body_signature_id(s) of the model, with its result
ParseCalls ==
    { [ signature_id |-> s, result |-> parse_body_signature_id(s) ] :
          s \in ExternalIds \cup { c.signature_id : c \in SigCalls } }

GenerateBodySignatureId ==
    /\ \E c \in SigCalls : sigCall' = c
    /\ UNCHANGED <<limiter, pool, retry, scanCall, now, hashCalls, hashCheck, parseCall, typeCall, goldenCalls,
                   scoreCall, confCall,
                   ratioCall, compareCall, validationCall>>

\* parse_body_signature_id on the ID just generated
ParseGeneratedId ==
    /\ sigCall # None
    /\ parseCall' = CHOOSE p \in ParseCalls : p.signature_id = sigCall.signature_id
    /\ UNCHANGED <<limiter, pool, retry, scanCall, now, hashCalls, hashCheck, sigCall, typeCall, goldenCalls,
                   scoreCall, confCall,
                   ratioCall, compareCall, validationCall>>

\* parse_body_signature_id on a string from elsewhere
ParseExternalId ==
    /\ \E p \in ParseCalls : p.signature_id \in ExternalIds /\ parseCall' = p
    /\ UNCHANGED <<limiter, pool, retry, scanCall, now, hashCalls, hashCheck, sigCall, typeCall, goldenCalls,
                   scoreCall, confCall,
                   ratioCall, compareCall, validationCall>>

NextSig ==
    \/ GenerateBodySignatureId
    \/ ParseGeneratedId
    \/ ParseExternalId

SpecSig == Init /\ [][NextSig]_vars

\* a string with the characters 32 (space) and 45 (hyphen) left out
WithoutSpacesAndHyphens(s) == SelectSeq(s, LAMBDA c : c \notin {32, 45})

\* C2: parsing a generated signature ID succeeds and returns the body type's
\* display name without spaces and hyphens, the body fat rounded to 1
\* decimal, the same hash and the Adonis Index rounded to 2 decimals.
C2_RoundTrip ==
    (sigCall # None /\ parseCall # None /\ parseCall.signature_id = sigCall.signature_id)
        => /\ parseCall.result # None
           /\ parseCall.result.body_type
                  = WithoutSpacesAndHyphens(BodyTypeValue(sigCall.body_type))
           /\ parseCall.result.body_fat_percent
                  = Canonical(RoundDiv10(sigCall.body_fat_percent, 100), 1)
           /\ parseCall.result.composition_hash = sigCall.composition_hash
           /\ parseCall.result.adonis_index
                  = Canonical(RoundDiv10(sigCall.adonis_index, 1000), 2)

\* the ID of a V-Taper with body fat 15.25 (a rounding tie) and Adonis Index
\* 1.618 has been generated and parsed: "VTaper", 15.2, the hash, 1.62
C2_Witness ==
    /\ sigCall # None
    /\ parseCall # None
    /\ parseCall.signature_id = sigCall.signature_id
    /\ sigCall.body_type = "VTAPER"
    /\ sigCall.body_fat_percent = 1525
    /\ sigCall.adonis_index = 1618
    /\ parseCall.result # None
    /\ Len(parseCall.result.body_type) = 6
    /\ parseCall.result.body_fat_percent = [num |-> 152, places |-> 1]
    /\ parseCall.result.adonis_index = [num |-> 162, places |-> 2]

\* s[a..b] is non-empty and made of characters of cs
AllIn(s, a, b, cs) == a <= b /\ b <= Len(s) /\ \A x \in a..b : s[x] \in cs

\* s holds the string lit at index a
HasAt(s, a, lit) == a + Len(lit) - 1 <= Len(s) /\ SubSeq(s, a, a + Len(lit) - 1) = lit

\* s is <letters>-BF<digits>.<digits>-<six of 0-9A-F>-AI<digits>.<digits>,
\* with the letters n1 long and the runs of digits n2, n3, n5 and n6 long
HasForm(s, n1, n2, n3, n5, n6) ==
    /\ Len(s) = n1 + 3 + n2 + 1 + n3 + 1 + 6 + 3 + n5 + 1 + n6
    /\ AllIn(s, 1, n1, Letters)
    /\ HasAt(s, n1 + 1, <<45, 66, 70>>)
    /\ AllIn(s, n1 + 4, n1 + 3 + n2, Digits)
    /\ HasAt(s, n1 + 4 + n2, <<46>>)
    /\ AllIn(s, n1 + 5 + n2, n1 + 4 + n2 + n3, Digits)
    /\ HasAt(s, n1 + 5 + n2 + n3, <<45>>)
    /\ AllIn(s, n1 + 6 + n2 + n3, n1 + 11 + n2 + n3, HexUpper)
    /\ HasAt(s, n1 + 12 + n2 + n3, <<45, 65, 73>>)
    /\ AllIn(s, n1 + 15 + n2 + n3, n1 + 14 + n2 + n3 + n5, Digits)
    /\ HasAt(s, n1 + 15 + n2 + n3 + n5, <<46>>)
    /\ AllIn(s, n1 + 16 + n2 + n3 + n5, n1 + 15 + n2 + n3 + n5 + n6, Digits)

MaxRun == 11   \* the longest run of letters or digits in the IDs of the model

IsSignatureForm(s) ==
    \E n1 \in 1..MaxRun : AllIn(s, 1, n1, Letters) /\ HasAt(s, n1 + 1, <<45, 66, 70>>) /\
    \E n2 \in 1..MaxRun : HasAt(s, n1 + 4 + n2, <<46>>) /\
    \E n3 \in 1..MaxRun : HasAt(s, n1 + 5 + n2 + n3, <<45>>) /\
    \E n5 \in 1..MaxRun : HasAt(s, n1 + 15 + n2 + n3 + n5, <<46>>) /\
    \E n6 \in 1..MaxRun : HasForm(s, n1, n2, n3, n5, n6)

\* C10: parse_body_signature_id returns None for every string that is not
\* exactly of the form <letters>-BF<digits>.<digits>-<six of 0-9A-F>-AI<digits>.<digits>,
\* and the components for every string that is.
C10_NoneUnlessExactForm ==
    parseCall # None =>
        ((parseCall.result = None) <=> ~IsSignatureForm(parseCall.signature_id))

\* "VTaper-BF15.5-A3F7C2-AI1.54\n", a well-formed ID with a newline after it,
\* has been handed to parse_body_signature_id
C10_TrailingNewlineParsed ==
    /\ parseCall # None
    /\ parseCall.signature_id = Join5([GoodPieces EXCEPT ![5] = <<10>>])
    /\ ~IsSignatureForm(parseCall.signature_id)

-----------------------------------------------------------------------------
(* services/body_type_classifier.py.  Ratios are in thousandths, the symmetry
   score in tenths, measurements and the body fat percent in hundredths,
   confidences in hundredths and aesthetic scores in hundredths of a point.
   A comparison of two decimals is the comparison of their doubles, the
   conversion being monotonic and, for decimals this short, one-to-one. *)

\* double(k/1000) - k/1000 in units of 2^(-bits) / 1000, for bits >= FracBits
ErrAt(k, bits) == ErrNum(k, 1000) * Pow2(bits - FracBits(k, 1000))

Sign(x) == IF x < 0 THEN 0 - 1 ELSE IF x > 0 THEN 1 ELSE 0

\* the sign of abs(x - c) - t in doubles, x, c and t decimals in thousandths
\* with x within a factor 2 of c wherever abs(x - c) = t in decimals: the
\* subtraction is then exact, and the doubles differ by
\* sign(x - c) * (err(x) - err(c)) - err(t), here in units of 2^(-57) / 1000
\* (57 is FracBits(50, 1000), the finest unit among the values compared)
CompareDistance(x, c, t) ==
    IF Abs(x - c) # t THEN Sign(Abs(x - c) - t)
    ELSE Sign(Sign(x - c) * (ErrAt(x, 57) - ErrAt(c, 57)) - ErrAt(t, 57))

\* whether the mantissa of the double of k/1000 is odd: with N = k * 2^p the
\* mantissa is floor(N / 1000), or that plus one when the double lies above
MantissaOdd(k) ==
    LET p  == FracBits(k, 1000)
        n2 == ((k % 2000) * Pow2Mod(p, 2000)) % 2000
    IN  ((n2 \div 1000) + (IF ErrNum(k, 1000) > 0 THEN 1 ELSE 0)) % 2 = 1

(* Sums and differences of doubles.  A double near the decimal k/1000 is
   [k |-> k, e |-> e]: the number k/1000 + e * 2^-62 / 1000, with e small
   against 2^62.  The doubles of two different decimals compare as the
   decimals do, and those of one decimal as their e. *)

\* the double of the decimal k/1000
Fl(k) ==
    IF k = 0 THEN [k |-> 0, e |-> 0]
    ELSE [k |-> k, e |-> Sign(k) * ErrAt(Abs(k), 62)]

\* the double nearest to k/1000 + e * 2^-62 / 1000, the exact sum or
\* difference of two doubles.  For k = 0 the operands are within a factor 2 of
\* each other and the number is a double.  Otherwise it lies d = e less the
\* error of the double of k/1000 from that double, in whose binade the doubles
\* are ulp apart: the result is the double round(d / ulp) steps away, a tie
\* going to the even mantissa.
FlRound(k, e) ==
    IF k = 0 THEN [k |-> 0, e |-> e]
    ELSE LET ulp  == 1000 * Pow2(62 - FracBits(Abs(k), 1000))
             d    == e - Fl(k).e
             q    == d \div ulp
             r    == d % ulp
             odd  == (IF MantissaOdd(Abs(k)) THEN 1 ELSE 0)
             up   == IF 2 * r > ulp THEN 1
                     ELSE IF 2 * r < ulp THEN 0
                     ELSE IF k > 0 THEN (odd + q) % 2
                     ELSE (odd - q) % 2
         IN  [k |-> k, e |-> Fl(k).e + (q + up) * ulp]

\* x + y and x - y in doubles
FlAdd(x, y) == FlRound(x.k + y.k, x.e + y.e)

FlSub(x, y) == FlRound(x.k - y.k, x.e - y.e)

\* the sign of x - y
FlCompare(x, y) == IF x.k # y.k THEN Sign(x.k - y.k) ELSE Sign(x.e - y.e)

\* the multiple of step above the double: rounding up, not to the nearest
FlCeilTo(x, step) == step * (x.k \div step) + step

\* round(x, n) in thousandths, step = 10^(3-n) thousandths: the multiple of
\* step nearest to the double, and the even one for a double half way
FlRoundTo(x, step) ==
    LET m == step * (x.k \div step)
        r == x.k % step
    IN  IF 2 * r < step THEN m
        ELSE IF 2 * r > step THEN m + step
        ELSE IF x.e > 0 THEN m + step
        ELSE IF x.e < 0 THEN m
        ELSE IF (m \div step) % 2 = 0 THEN m ELSE m + step

\* abs(x)
FlAbs(x) == IF x.k < 0 \/ (x.k = 0 /\ x.e < 0) THEN [k |-> 0 - x.k, e |-> 0 - x.e] ELSE x

\* the candidates the rules of classify_body_type append, in rule order
Classifications(ratios, measurements) ==
    LET stw == ratios.shoulder_to_waist_ratio
        whr == ratios.waist_to_hip_ratio
        ctw == ratios.chest_to_waist_ratio
        symmetry == ratios.symmetry_score
    IN  (IF stw >= 1400 /\ ctw >= 1300
         THEN << <<"VTAPER", IF stw >= 1600 THEN 95 ELSE 80>> >> ELSE <<>>)
     \o (IF 1350 <= stw /\ stw <= 1550 /\ symmetry >= 800
         THEN << <<"CLASSIC", 85>> >> ELSE <<>>)
     \o (IF 1400 <= stw /\ stw <= 1700 /\ 850 <= whr /\ whr <= 950 /\ symmetry >= 850
         THEN << <<"BALANCED", 90>> >> ELSE <<>>)
     \o (IF stw < 1200 /\ CompareDistance(whr, 1000, 100) < 0
         THEN << <<"RECTANGULAR", 85>> >> ELSE <<>>)
     \o (IF whr > 950 /\ measurements.body_fat_percent > 2000
         THEN << <<"APPLE", 80>> >> ELSE <<>>)
     \o (IF whr < 850 /\ measurements.hip_circumference_cm
                             > measurements.chest_circumference_cm
         THEN << <<"PEAR", 75>> >> ELSE <<>>)

\* the index of the last candidate of greatest confidence
LastMaxIndex(cs) ==
    CHOOSE i \in 1..Len(cs) :
        /\ \A j \in 1..Len(cs) : cs[j][2] <= cs[i][2]
        /\ \A j \in (i + 1)..Len(cs) : cs[j][2] < cs[i][2]

\* the index of the first candidate of greatest confidence
FirstMaxIndex(cs) ==
    CHOOSE i \in 1..Len(cs) :
        /\ \A j \in 1..Len(cs) : cs[j][2] <= cs[i][2]
        /\ \A j \in 1..(i - 1) : cs[j][2] < cs[i][2]

\* the candidates without candidate i
Without(cs, i) == SubSeq(cs, 1, i - 1) \o SubSeq(cs, i + 1, Len(cs))

RECURSIVE SortByConfidenceLast(_)
\* a descending sort that puts the later of two equal candidates first
SortByConfidenceLast(cs) ==
    IF Len(cs) <= 1 THEN cs
    ELSE <<cs[LastMaxIndex(cs)]>> \o SortByConfidenceLast(Without(cs, LastMaxIndex(cs)))

RECURSIVE SortByConfidence(_)
\* list.sort(key=lambda x: x[1], reverse=True): descending, and stable (equal
\* candidates keep their order)
SortByConfidence(cs) ==
    IF Len(cs) <= 1 THEN cs
    ELSE <<cs[FirstMaxIndex(cs)]>> \o SortByConfidence(Without(cs, FirstMaxIndex(cs)))

\* the sorted candidates' first, or the default
FirstOrDefault(classifications) ==
    IF classifications # <<>> THEN SortByConfidence(classifications)[1]
    ELSE <<"RECTANGULAR", 60>>

classify_body_type(ratios, measurements) ==
    FirstOrDefault(Classifications(ratios, measurements))

GoldenRatio == 1618   \* GOLDEN_RATIO = 1.618

\* 40 * (1 - deviation / 0.25): no points from a deviation of 0.25
GoldenDecayDoubled(d) == 4000 - 16 * d

\* 40 * (1 - deviation / 0.5) for the deviation d in thousandths: the double
\* is within 10^-13 of this decimal, which is an even number of hundredths,
\* so that round(score, 1) is the tenth nearest to it
GoldenInterpolation(d) == 4000 - 8 * d

calculate_golden_ratio_score(ratios) ==
    IF CompareDistance(ratios.adonis_index, GoldenRatio, 50) <= 0 THEN 4000
    ELSE IF CompareDistance(ratios.adonis_index, GoldenRatio, 500) >= 0 THEN 0
    ELSE 10 * RoundDiv10(GoldenInterpolation(Abs(ratios.adonis_index - GoldenRatio)), 100)

\* symmetry_score / 100 * 30, without the rounding
SymmetryComponentUnrounded(ratios) == {3 * ratios.symmetry_score}

\* round(symmetry_score / 100 * 30, 1): the results the doubles can give.  For
\* a symmetry score in tenths the product is a whole number of hundredths up
\* to the rounding of the division and the multiplication; where it ends in
\* 5 that rounding decides between the two neighbouring tenths.
calculate_symmetry_component_score(ratios) ==
    IF (3 * ratios.symmetry_score) % 10 = 5
    THEN {3 * ratios.symmetry_score - 5, 3 * ratios.symmetry_score + 5}
    ELSE {10 * ((3 * ratios.symmetry_score + 5) \div 10)}

\* the lookup table with the ideal band open at 15: 18 points for 15%
CompositionScoreOpenBand(measurements) ==
    LET bf_percent == measurements.body_fat_percent
    IN  IF 1000 <= bf_percent /\ bf_percent < 1500 THEN 2000
        ELSE IF 800 <= bf_percent /\ bf_percent <= 1800 THEN 1800
        ELSE IF 500 <= bf_percent /\ bf_percent <= 2200 THEN 1500
        ELSE IF bf_percent < 500 \/ bf_percent > 3000 THEN 500
        ELSE 1200

calculate_composition_score(measurements) ==
    LET bf_percent == measurements.body_fat_percent
    IN  IF 1000 <= bf_percent /\ bf_percent <= 1500 THEN 2000
        ELSE IF (800 <= bf_percent /\ bf_percent < 1000)
                    \/ (1500 < bf_percent /\ bf_percent <= 1800) THEN 1800
        ELSE IF (500 <= bf_percent /\ bf_percent < 800)
                    \/ (1800 < bf_percent /\ bf_percent <= 2200) THEN 1500
        ELSE IF bf_percent < 500 \/ bf_percent > 3000 THEN 500
        ELSE 1200

\* round(posture_rating, 1), the rating in hundredths
calculate_posture_score(posture_rating) == 10 * RoundDiv10(posture_rating, 100)

\* the AestheticScore built from the four component scores
AestheticScoreOf(golden, symmetry, composition, posture, body_type, confidence) ==
    [ overall_score       |-> 10 * RoundDiv10(golden + symmetry + composition + posture, 100),
      golden_ratio_score  |-> golden,
      symmetry_score      |-> symmetry,
      composition_score   |-> composition,
      posture_score       |-> posture,
      body_type           |-> body_type,
      body_type_confidence |-> confidence ]

\* the AestheticScore objects calculate_aesthetic_score can return
calculate_aesthetic_score(ratios, body_type, measurements, body_type_confidence) ==
    { AestheticScoreOf(calculate_golden_ratio_score(ratios), sym,
                       calculate_composition_score(measurements),
                       calculate_posture_score(measurements.posture_rating),
                       body_type, body_type_confidence) :
          sym \in calculate_symmetry_component_score(ratios) }

\* services/scan_assembler.py, validate_scan_result: the error "Aesthetic
\* score components don't sum correctly" is reported
ComponentsSumError(aesthetic_score) ==
    LET total == FlAdd(FlAdd(FlAdd(Fl(10 * aesthetic_score.golden_ratio_score),
                                   Fl(10 * aesthetic_score.symmetry_score)),
                             Fl(10 * aesthetic_score.composition_score)),
                       Fl(10 * aesthetic_score.posture_score))
    IN  FlCompare(FlAbs(FlSub(total, Fl(10 * aesthetic_score.overall_score))), Fl(500)) > 0

-----------------------------------------------------------------------------
(* Calls of classify_body_type: the arguments are drawn when the call starts,
   the result is None until it returns. *)

TypeRatios ==
    [ shoulder_to_waist_ratio : {1100, 1400, 1500, 1550, 1600, 1800},
      chest_to_waist_ratio    : {1200, 1300, 1350},
      waist_to_hip_ratio      : {800, 900, 960, 1100},
      symmetry_score          : {700, 800, 900} ]

TypeMeasurements ==
    [ body_fat_percent       : {1200, 2500},
      hip_circumference_cm   : {9000, 10500},
      chest_circumference_cm : {10000} ]

InitType ==
    /\ now = 0
    /\ limiter = None
    /\ pool = None
    /\ retry = None
    /\ scanCall = None
    /\ hashCalls = <<>>
    /\ hashCheck = None
    /\ sigCall = None
    /\ parseCall = None
    /\ typeCall \in [ ratios : TypeRatios, measurements : TypeMeasurements, result : {None} ]
    /\ goldenCalls = <<>>
    /\ scoreCall = None
    /\ confCall = None
    /\ ratioCall = None
    /\ compareCall = None
    /\ validationCall = None

ClassifyBodyType ==
    /\ typeCall # None
    /\ typeCall.result = None
    /\ typeCall' = [typeCall EXCEPT
                        !.result = classify_body_type(typeCall.ratios, typeCall.measurements)]
    /\ UNCHANGED <<limiter, pool, retry, scanCall, now, hashCalls, hashCheck, sigCall, parseCall, goldenCalls,
                   scoreCall, confCall,
                   ratioCall, compareCall, validationCall>>

NextType == ClassifyBodyType

SpecType == InitType /\ [][NextType]_vars

RuleOrder == <<"VTAPER", "CLASSIC", "BALANCED", "RECTANGULAR", "APPLE", "PEAR">>

RuleRank(body_type) == CHOOSE i \in 1..Len(RuleOrder) : RuleOrder[i] = body_type

\* the candidates of the rules that fire on the arguments of the call
Fired(call) ==
    { Classifications(call.ratios, call.measurements)[i] :
          i \in 1..Len(Classifications(call.ratios, call.measurements)) }

\* C4: classify_body_type returns a fired candidate of maximum confidence,
\* among those of maximum confidence the one of the rule evaluated first
\* (V-Taper, Classic, Balanced, Rectangular, Apple, Pear), and
\* (Rectangular, 0.60) when no rule fires.
C4_MaxConfidenceFirstRule ==
    (typeCall # None /\ typeCall.result # None) =>
        IF Fired(typeCall) = {} THEN typeCall.result = <<"RECTANGULAR", 60>>
        ELSE /\ typeCall.result \in Fired(typeCall)
             /\ \A c \in Fired(typeCall) :
                    /\ c[2] <= typeCall.result[2]
                    /\ c[2] = typeCall.result[2]
                           => RuleRank(typeCall.result[1]) <= RuleRank(c[1])

\* V-Taper and Apple both fired with confidence 0.80, and V-Taper was returned
C4_Witness ==
    /\ typeCall # None
    /\ typeCall.result # None
    /\ typeCall.result = <<"VTAPER", 80>>
    /\ <<"APPLE", 80>> \in Fired(typeCall)

-----------------------------------------------------------------------------
(* Calls of calculate_golden_ratio_score *)

MaxGoldenCalls == 2

GoldenAdonis ==
    {0, 625, 1118, 1119, 1300, 1567, 1568, 1569, 1618, 1667, 1668, 1669, 1900,
     2117, 2118, 2119, 3000}

CalculateGoldenRatioScore ==
    /\ Len(goldenCalls) < MaxGoldenCalls
    /\ \E a \in GoldenAdonis :
           goldenCalls' = Append(goldenCalls,
               [ adonis_index |-> a,
                 score |-> calculate_golden_ratio_score([adonis_index |-> a]) ])
    /\ UNCHANGED <<limiter, pool, retry, scanCall, now, hashCalls, hashCheck, sigCall, parseCall, typeCall,
                   scoreCall, confCall,
                   ratioCall, compareCall, validationCall>>

NextGolden == CalculateGoldenRatioScore

SpecGolden == Init /\ [][NextGolden]_vars

\* |adonis_index - 1.618|, in thousandths
Deviation(call) == Abs(call.adonis_index - 1618)

\* C5: calculate_golden_ratio_score returns 40.0 when |adonis_index - 1.618|
\* <= 0.05, 0.0 when the deviation is >= 0.5, and 40 * (1 - deviation / 0.5)
\* rounded to 1 decimal otherwise; the result is within [0, 40] and never
\* increases as the deviation grows.
C5_GoldenRatioScore ==
    /\ \A i \in 1..Len(goldenCalls) :
           /\ Deviation(goldenCalls[i]) <= 50 => goldenCalls[i].score = 4000
           /\ Deviation(goldenCalls[i]) >= 500 => goldenCalls[i].score = 0
           /\ (50 < Deviation(goldenCalls[i]) /\ Deviation(goldenCalls[i]) < 500)
                  => goldenCalls[i].score
                         = 10 * ((4000 - 8 * Deviation(goldenCalls[i]) + 5) \div 10)
           /\ 0 <= goldenCalls[i].score /\ goldenCalls[i].score <= 4000
    /\ \A i, j \in 1..Len(goldenCalls) :
           Deviation(goldenCalls[i]) < Deviation(goldenCalls[j])
               => goldenCalls[i].score >= goldenCalls[j].score

\* calculate_golden_ratio_score has been called with Adonis Index 1.568, whose
\* deviation from 1.618 is 0.05
C5_BoundaryCalled ==
    \E i \in 1..Len(goldenCalls) : goldenCalls[i].adonis_index = 1568

-----------------------------------------------------------------------------
(* Calls of calculate_aesthetic_score *)

ScoreRatios ==
    [ adonis_index   : {100, 625, 1300, 1568, 1618, 1900, 3000},
      symmetry_score : {0, 333, 855, 1000} ]

ScoreMeasurements ==
    [ body_fat_percent : {300, 400, 499, 500, 799, 800, 900, 999, 1000, 1250, 1500, 1501, 1700,
                           1800, 1801, 2000, 2200, 2201, 2500, 3000, 3001, 3100, 6000},
      posture_rating   : {0, 725, 735, 1000} ]

ScoreBodyTypes == { <<"VTAPER", 95>>, <<"RECTANGULAR", 60>> }

InitScore ==
    /\ now = 0
    /\ limiter = None
    /\ pool = None
    /\ retry = None
    /\ scanCall = None
    /\ hashCalls = <<>>
    /\ hashCheck = None
    /\ sigCall = None
    /\ parseCall = None
    /\ typeCall = None
    /\ goldenCalls = <<>>
    /\ scoreCall \in [ ratios : ScoreRatios, measurements : ScoreMeasurements,
                       body_type : ScoreBodyTypes, result : {None} ]
    /\ confCall = None
    /\ ratioCall = None
    /\ compareCall = None
    /\ validationCall = None

CalculateAestheticScore ==
    /\ scoreCall # None
    /\ scoreCall.result = None
    /\ \E s \in calculate_aesthetic_score(scoreCall.ratios, scoreCall.body_type[1],
                                          scoreCall.measurements, scoreCall.body_type[2]) :
           scoreCall' = [scoreCall EXCEPT !.result = s]
    /\ UNCHANGED <<limiter, pool, retry, scanCall, now, hashCalls, hashCheck, sigCall, parseCall, typeCall,
                   goldenCalls, confCall,
                   ratioCall, compareCall, validationCall>>

NextScore == CalculateAestheticScore

SpecScore == InitScore /\ [][NextScore]_vars

\* the sum of the four component scores of an AestheticScore
ComponentSum(s) ==
    s.golden_ratio_score + s.symmetry_score + s.composition_score + s.posture_score

\* C3: the four component scores of every AestheticScore returned by
\* calculate_aesthetic_score add up to its overall_score within 0.01, and
\* validate_scan_result does not report that they don't sum correctly.
C3_ComponentsSumToOverall ==
    (scoreCall # None /\ scoreCall.result # None) =>
        /\ Abs(ComponentSum(scoreCall.result) - scoreCall.result.overall_score) <= 1
        /\ ~ComponentsSumError(scoreCall.result)

\* a score has been returned for symmetry 85.5 (0.3 * 85.5 = 25.65, between
\* two tenths) and posture 7.35, each component rounded to a tenth
C3_Witness ==
    /\ scoreCall # None
    /\ scoreCall.result # None
    /\ scoreCall.ratios.symmetry_score = 855
    /\ scoreCall.measurements.posture_rating = 735
    /\ scoreCall.result.symmetry_score \in {2560, 2570}
    /\ scoreCall.result.overall_score > 0

-----------------------------------------------------------------------------
(* services/confidence_scorer.py.  Factors and the completeness score are in
   thousandths, the weights in hundredths and the weighted sum in units of
   10^-5.  The double of the weighted sum is within 10^-15 of this decimal;
   the sums of the model are whole multiples of 0.0002, so that round(x, 3)
   is the thousandth nearest to the decimal. *)

MinConfidenceScore == 700   \* settings.min_confidence_score = 0.70

_calculate_photo_factor(photo_count) ==
    IF photo_count >= 3 THEN 1000
    ELSE IF photo_count = 2 THEN 750
    ELSE IF photo_count = 1 THEN 500
    ELSE 0

\* the deduction of a check of _calculate_consistency_factor that applies
Deduct(applies, amount) == IF applies THEN amount ELSE 0

\* whether shoulder_width_cm / chest_circumference_cm is < 0.3 or > 0.8 in
\* doubles, the measurements in hundredths of cm and at least 16 cm.  Off the
\* decimal boundaries the decimals decide.  On one, the quotient of the two
\* doubles rounds past the double t of the threshold iff it is past the point
\* m half way to t's neighbour, that is iff double(shoulder) is past
\* m * double(chest): with err(x) = double(x) - x, the sign of
\* err(shoulder) - threshold * err(chest) - (m - threshold) * chest, or, where
\* that is zero, of the product (m - threshold) * err(chest) left over.  The
\* errors of the measurements are in units of 2^-48 / 1000, m - threshold in
\* units of 2^-54 / 1000 (500 and 1000 of them are half the distance of the
\* doubles near 0.3 and near 0.8).
ShoulderChestUnusual(shoulder, chest) ==
    IF 10 * shoulder # 3 * chest /\ 10 * shoulder # 8 * chest
    THEN 10 * shoulder < 3 * chest \/ 10 * shoulder > 8 * chest
    ELSE LET es   == ErrAt(10 * shoulder, 48)
             ec   == ErrAt(10 * chest, 48)
             low  == 64000 * es - 19200 * ec - (ErrAt(300, 54) - 500) * 10 * chest
             high == 64000 * es - 51200 * ec - (ErrAt(800, 54) + 1000) * 10 * chest
         IN  IF 10 * shoulder = 3 * chest
             THEN low < 0 \/ (low = 0 /\ (ec < 0 \/ (ec = 0 /\ MantissaOdd(300))))
             ELSE high > 0 \/ (high = 0 /\ (ec < 0 \/ (ec = 0 /\ MantissaOdd(800))))

\* the score in thousandths: the double the subtractions leave is within
\* 10^-15 of it
_calculate_consistency_factor(measurements) ==
    Max(0,
        1000
        - Deduct(measurements.waist_circumference_cm > measurements.chest_circumference_cm, 100)
        - Deduct(\/ measurements.muscle_definition = "high"
                       /\ measurements.body_fat_percent > 2000
                 \/ measurements.muscle_definition = "low"
                       /\ measurements.body_fat_percent < 1000, 150)
        - Deduct(measurements.bicep_circumference_cm > measurements.thigh_circumference_cm, 250)
        - Deduct(measurements.calf_circumference_cm > measurements.thigh_circumference_cm, 200)
        - Deduct(ShoulderChestUnusual(measurements.shoulder_width_cm,
                                      measurements.chest_circumference_cm), 150))

\* the score of a finish reason, in hundredths
FinishScore(finish_reason) ==
    IF finish_reason = "stop" THEN 100
    ELSE IF finish_reason = "length" THEN 70
    ELSE 50

\* strategy_scores.get(extraction_strategy, 0.50), in hundredths
ExtractionScore(extraction_strategy) ==
    CASE extraction_strategy = "direct_parse"   -> 100
      [] extraction_strategy = "markdown_strip" -> 95
      [] extraction_strategy = "regex_extract"  -> 85
      [] extraction_strategy = "error_fix"      -> 75
      [] extraction_strategy = "ai_repair"      -> 60
      [] OTHER                                  -> 50

_calculate_ai_factor(finish_reason, extraction_strategy) ==
    FinishScore(finish_reason) * 6 + ExtractionScore(extraction_strategy) * 4

_calculate_validation_factor(validation_errors) ==
    IF Len(validation_errors) = 0 THEN 1000
    ELSE IF Len(validation_errors) <= 2 THEN 850
    ELSE IF Len(validation_errors) <= 5 THEN 700
    ELSE 500

\* the dict weights, in hundredths
Weights == [photo |-> 20, consistency |-> 30, ai |-> 20, completeness |-> 20,
            validation |-> 10]

\* the sum of the five factors, each with weight 1
UnweightedSum(photo, consistency, ai, completeness, validation) ==
    (photo + consistency + ai + completeness + validation) * 100

\* overall_score before rounding, in units of 10^-5
WeightedSum(photo, consistency, ai, completeness, validation) ==
      photo * Weights.photo
    + consistency * Weights.consistency
    + ai * Weights.ai
    + completeness * Weights.completeness
    + validation * Weights.validation

\* round(x, 3) of x in units of 10^-5, in thousandths; a sum that ends in 50
\* is not a double, and the model has none
Round3(x) ==
    IF x % 100 < 50 THEN x \div 100
    ELSE IF x % 100 > 50 THEN (x \div 100) + 1
    ELSE IF (x \div 100) % 2 = 0 THEN x \div 100 ELSE (x \div 100) + 1

\* the ConfidenceMetrics built from the five factors and their weighted sum;
\* the factors are thousandths, which round(factor, 3) leaves as they are
ConfidenceMetricsOf(photo, consistency, ai, completeness, validation, overall) ==
    [ overall_score             |-> Round3(overall),
      photo_count_factor        |-> photo,
      consistency_factor        |-> consistency,
      ai_confidence_factor      |-> ai,
      data_completeness_factor  |-> completeness,
      validation_quality_factor |-> validation,
      meets_threshold           |-> overall >= 100 * MinConfidenceScore ]

\* the metrics of five factors
MetricsOfFactors(photo, consistency, ai, completeness, validation) ==
    ConfidenceMetricsOf(photo, consistency, ai, completeness, validation,
                        WeightedSum(photo, consistency, ai, completeness, validation))

calculate_confidence(measurements, photo_count, completeness_score, ai_finish_reason, extraction_strategy, validation_errors) ==
    MetricsOfFactors(_calculate_photo_factor(photo_count),
                     _calculate_consistency_factor(measurements),
                     _calculate_ai_factor(ai_finish_reason, extraction_strategy),
                     completeness_score,
                     _calculate_validation_factor(validation_errors))

-----------------------------------------------------------------------------
(* Calls of ConfidenceScorer.calculate_confidence *)

\* body fat percent with a muscle definition
ConfBodies == { <<1500, "moderate">>, <<2500, "high">>, <<900, "low">> }

\* chest circumference with a shoulder width
ConfFrames == { <<10000, 4500>>, <<12000, 3000>> }

ConfMeasurements ==
    { [ chest_circumference_cm |-> f[1], shoulder_width_cm |-> f[2],
        waist_circumference_cm |-> w, bicep_circumference_cm |-> b,
        thigh_circumference_cm |-> 5500, calf_circumference_cm |-> c,
        body_fat_percent |-> bd[1], muscle_definition |-> bd[2] ] :
          f \in ConfFrames, w \in {8500, 12500}, b \in {3500, 5600},
          c \in {3800, 5700}, bd \in ConfBodies }

\* a list of n validation errors
ErrorList(n) == [i \in 1..n |-> "Error"]

ConfArguments ==
    [ measurements        : ConfMeasurements,
      photo_count         : 0..3,
      completeness_score  : {0, 428, 500, 997, 998, 1000},
      ai_finish_reason    : {"stop", "length", "content_filter"},
      extraction_strategy : {"direct_parse", "markdown_strip", "regex_extract",
                             "error_fix", "ai_repair", "unknown"},
      validation_errors   : { ErrorList(n) : n \in {0, 2, 3, 6} } ]

\* Where the weighted sum is the threshold itself in decimals, the comparison
\* with the threshold is decided by the rounding of the five products and
\* four additions of doubles; for the calls drawn here that double sum is
\* not below the threshold.
InitConf ==
    /\ now = 0
    /\ limiter = None
    /\ pool = None
    /\ retry = None
    /\ scanCall = None
    /\ hashCalls = <<>>
    /\ hashCheck = None
    /\ sigCall = None
    /\ parseCall = None
    /\ typeCall = None
    /\ goldenCalls = <<>>
    /\ scoreCall = None
    /\ confCall \in { [arguments |-> a, result |-> None] : a \in ConfArguments }
    /\ ratioCall = None
    /\ compareCall = None
    /\ validationCall = None

CalculateConfidence ==
    /\ confCall # None
    /\ confCall.result = None
    /\ confCall' = [confCall EXCEPT !.result =
           calculate_confidence(confCall.arguments.measurements,
                                confCall.arguments.photo_count,
                                confCall.arguments.completeness_score,
                                confCall.arguments.ai_finish_reason,
                                confCall.arguments.extraction_strategy,
                                confCall.arguments.validation_errors)]
    /\ UNCHANGED <<limiter, pool, retry, scanCall, now, hashCalls, hashCheck, sigCall, parseCall, typeCall,
                   goldenCalls, scoreCall,
                   ratioCall, compareCall, validationCall>>

NextConf == CalculateConfidence

SpecConf == InitConf /\ [][NextConf]_vars

\* C6: the reported overall_score is the weighted sum of the five reported
\* factors with weights 0.20, 0.30, 0.20, 0.20 and 0.10, which add up to 1,
\* rounded to 3 decimals; it lies in [0, 1]; it is 1.0 only when the photo,
\* consistency, AI and validation factors are 1.0 and the completeness score
\* is at least 0.9975.
C6_WeightedSumWithinUnit ==
    (confCall # None /\ confCall.result # None) =>
        /\ Weights.photo + Weights.consistency + Weights.ai
               + Weights.completeness + Weights.validation = 100
        /\ confCall.result.overall_score
               = Round3(20 * confCall.result.photo_count_factor
                        + 30 * confCall.result.consistency_factor
                        + 20 * confCall.result.ai_confidence_factor
                        + 20 * confCall.result.data_completeness_factor
                        + 10 * confCall.result.validation_quality_factor)
        /\ 0 <= confCall.result.overall_score
        /\ confCall.result.overall_score <= 1000
        /\ confCall.result.overall_score = 1000
               => /\ confCall.result.photo_count_factor = 1000
                  /\ confCall.result.consistency_factor = 1000
                  /\ confCall.result.ai_confidence_factor = 1000
                  /\ confCall.result.validation_quality_factor = 1000
                  /\ 2 * confCall.arguments.completeness_score >= 1995

\* a call with completeness 0.998 has returned the overall_score 1.0
C6_Witness ==
    /\ confCall # None
    /\ confCall.result # None
    /\ confCall.arguments.completeness_score = 998
    /\ confCall.result.overall_score = 1000

\* C6 as stated: the reported overall_score lies in [0, 1] and is 1.0 only
\* when all five factors are 1.0.
C6_OneOnlyWhenAllFactorsOne ==
    (confCall # None /\ confCall.result # None) =>
        /\ 0 <= confCall.result.overall_score
        /\ confCall.result.overall_score <= 1000
        /\ confCall.result.overall_score = 1000
               => /\ confCall.result.photo_count_factor = 1000
                  /\ confCall.result.consistency_factor = 1000
                  /\ confCall.result.ai_confidence_factor = 1000
                  /\ confCall.result.data_completeness_factor = 1000
                  /\ confCall.result.validation_quality_factor = 1000

\* the arguments of scenario 4: one photo, completeness 0.5, finish reason
\* "length", strategy "error_fix", three validation errors
IsScenario4(a) ==
    /\ a.photo_count = 1
    /\ a.completeness_score = 500
    /\ a.ai_finish_reason = "length"
    /\ a.extraction_strategy = "error_fix"
    /\ Len(a.validation_errors) = 3

\* C7: with the arguments of scenario 4, whatever the measurements,
\* calculate_confidence returns overall_score < 0.70 and meets_threshold
\* False.
C7_Scenario4BelowThreshold ==
    (confCall # None /\ confCall.result # None /\ IsScenario4(confCall.arguments)) =>
        /\ confCall.result.overall_score < 700
        /\ confCall.result.meets_threshold = FALSE

\* C8: meets_threshold is true exactly when the overall_score of the same
\* ConfidenceMetrics is at least the configured minimum confidence.
C8_MeetsThresholdIffReportedScore ==
    (confCall # None /\ confCall.result # None) =>
        (confCall.result.meets_threshold
             <=> confCall.result.overall_score >= MinConfidenceScore)

\* scenario 4 has been evaluated on measurements whose consistency factor is 1.0
C7_Scenario4Evaluated ==
    /\ confCall # None
    /\ confCall.result # None
    /\ IsScenario4(confCall.arguments)
    /\ confCall.result.consistency_factor = 1000

\* a call whose weighted sum is 0.6996 has returned: its overall_score is the
\* minimum confidence
C8_RoundedUpToThreshold ==
    /\ confCall # None
    /\ confCall.result # None
    /\ confCall.arguments.photo_count = 1
    /\ confCall.arguments.completeness_score = 428
    /\ confCall.arguments.ai_finish_reason = "length"
    /\ confCall.arguments.extraction_strategy = "error_fix"
    /\ Len(confCall.arguments.validation_errors) = 3
    /\ confCall.result.consistency_factor = 1000
    /\ confCall.result.overall_score = MinConfidenceScore

-----------------------------------------------------------------------------
(* services/ratio_calculator.py.  Measurements are in hundredths of a
   centimetre, ratios in thousandths, the scores of score_ratio in units of
   10^-4 of a point and the symmetry score in tenths of a point.  A function
   that can raise returns the set of its outcomes, [raises |-> message] or
   [value |-> v]; an Optional[float] is the sequence of its values, <<>> for
   None. *)

\* IDEAL_RATIOS, each (min, max) in thousandths
IDEAL_RATIOS ==
    [ shoulder_to_waist   |-> <<1400, 1700>>,
      waist_to_hip_male   |-> <<850, 950>>,
      waist_to_hip_female |-> <<650, 750>>,
      chest_to_waist      |-> <<1200, 1400>>,
      arm_to_chest        |-> <<360, 400>>,
      thigh_to_waist      |-> <<700, 850>> ]

RECURSIVE RoundQuotient3(_, _, _)
\* round(num / den, 3) in thousandths, for den > 0.  The double quotient is
\* within 10^-15 of num/den, so that the result is the thousandth nearest to
\* num/den wherever that is not half way between two thousandths.  Half way
\* ((2f+1)/2000), and with operands that are doubles themselves (exact), the
\* quotient is the double of (2f+1)/2000: round takes the even thousandth if
\* that double is (2f+1)/2000, and the side the double lies on otherwise.
\* Half way with operands that are not doubles, the rounding of the operands
\* decides: both neighbours are outcomes.
RoundQuotient3(num, den, exact) ==
    IF num < 0 THEN { 0 - q : q \in RoundQuotient3(0 - num, den, exact) }
    ELSE LET f == (1000 * num) \div den
             r == (1000 * num) % den
         IN  IF 2 * r < den THEN {f}
             ELSE IF 2 * r > den THEN {f + 1}
             ELSE IF ~exact THEN {f, f + 1}
             ELSE IF (2 * f + 1) % 125 = 0 THEN {IF f % 2 = 0 THEN f ELSE f + 1}
             ELSE IF ErrNum(2 * f + 1, 2000) < 0 THEN {f} ELSE {f + 1}

\* a ratio function that returns 0 where the source raises
RatioOutcomesUnchecked(num, den, exact, message) ==
    IF den <= 0 THEN { [value |-> 0] }
    ELSE { [value |-> q] : q \in RoundQuotient3(num, den, exact) }

\* the outcomes of a ratio function: ValueError(message) if the divisor is
\* not positive, and round(num / den, 3) otherwise
RatioOutcomes(num, den, exact, message) ==
    IF den <= 0 THEN { [raises |-> message] }
    ELSE { [value |-> q] : q \in RoundQuotient3(num, den, exact) }

\* a length in hundredths is a double if it is a whole number of quarters
IsDouble(cm) == cm % 25 = 0

\* shoulder_width_cm is [n |-> the width in 1/2000 cm, exact |-> whether it is
\* a double]: the width estimated from the chest, chest * 1.15, is neither a
\* whole number of hundredths nor the double of one
calculate_adonis_index(shoulder_width_cm, waist_circumference_cm) ==
    RatioOutcomes(shoulder_width_cm.n, 20 * waist_circumference_cm,
                  shoulder_width_cm.exact /\ IsDouble(waist_circumference_cm),
                  "Waist circumference must be positive")

calculate_waist_to_hip_ratio(waist_circumference_cm, hip_circumference_cm) ==
    RatioOutcomes(waist_circumference_cm, hip_circumference_cm,
                  IsDouble(waist_circumference_cm) /\ IsDouble(hip_circumference_cm),
                  "Hip circumference must be positive")

calculate_chest_to_waist_ratio(chest_circumference_cm, waist_circumference_cm) ==
    RatioOutcomes(chest_circumference_cm, waist_circumference_cm,
                  IsDouble(chest_circumference_cm) /\ IsDouble(waist_circumference_cm),
                  "Waist circumference must be positive")

calculate_arm_to_chest_ratio(bicep_circumference_cm, chest_circumference_cm) ==
    RatioOutcomes(bicep_circumference_cm, chest_circumference_cm,
                  IsDouble(bicep_circumference_cm) /\ IsDouble(chest_circumference_cm),
                  "Chest circumference must be positive")

calculate_leg_to_torso_ratio(thigh_circumference_cm, waist_circumference_cm) ==
    RatioOutcomes(thigh_circumference_cm, waist_circumference_cm,
                  IsDouble(thigh_circumference_cm) /\ IsDouble(waist_circumference_cm),
                  "Waist circumference must be positive")

\* mid_ideal = (min_ideal + max_ideal) / 2 is the double of the decimal
\* (lo + hi) / 2: the sum of the two doubles, off the double of lo + hi by
\* err(lo) + err(hi) - err(lo + hi), rounds to that double if it is within
\* half a unit in its last place, a tie going to the even mantissa
MidIsDouble(lo, hi) ==
    LET bits == Max(FracBits(lo, 1000), FracBits(hi, 1000))
        off  == Abs(ErrAt(lo, bits) + ErrAt(hi, bits) - ErrAt(lo + hi, bits))
        half == 500 * Pow2(bits - FracBits(lo + hi, 1000))
    IN  off < half \/ (off = half /\ ~MantissaOdd(lo + hi))

\* deviation = (actual - max_ideal) / max_ideal >= 0.5 in doubles, for the
\* decimals 2 * actual = 3 * max_ideal: the subtraction is exact, and the
\* quotient rounds to 0.5 or more if it is 0.5 - 2^-55 or more, that is if
\* 2 * err(actual) - 3 * err(max_ideal) + 2^-54 * max_ideal >= 0
HalfDeviationReached(actual, max_ideal) ==
    LET bits == Max(FracBits(max_ideal, 1000), 54)
        d    == 2 * ErrAt(actual, bits) - 3 * ErrAt(max_ideal, bits)
                    + max_ideal * Pow2(bits - 54)
    IN  d > 0 \/ (d = 0 /\ ErrNum(max_ideal, 1000) >= 0)

\* score_ratio(actual, ideal_range) for 0 < min_ideal <= max_ideal:
\* [value |-> the score to the nearest 10^-4, error |-> the sign of the
\* double less that value where the score is 0 or 100 in decimals].  Inside
\* the range max(80, 100 - 50 * |actual - mid| / half width), which is 100
\* only if actual is the double mid_ideal; outside 80 * (1 - deviation / 0.5)
\* and 0 from deviation 0.5 on, which 1.5 * max_ideal may fall short of by a
\* rounding error.
score_ratio(actual, ideal_range) ==
    LET min_ideal == ideal_range[1]
        max_ideal == ideal_range[2]
    IN  IF min_ideal <= actual /\ actual <= max_ideal
        THEN IF max_ideal = min_ideal THEN [value |-> 1000000, error |-> 0]
             ELSE IF 2 * actual = min_ideal + max_ideal
             THEN [value |-> 1000000,
                   error |-> IF MidIsDouble(min_ideal, max_ideal) THEN 0 ELSE 0 - 1]
             ELSE [value |-> Max(800000,
                                 1000000 - (1000000 * Abs(2 * actual - min_ideal - max_ideal)
                                                + (max_ideal - min_ideal))
                                               \div (2 * (max_ideal - min_ideal))),
                   error |-> 0]
        ELSE IF actual < min_ideal
        THEN IF 2 * (min_ideal - actual) >= min_ideal THEN [value |-> 0, error |-> 0]
             ELSE [value |-> 800000 - (1600000 * (min_ideal - actual) + min_ideal \div 2)
                                          \div min_ideal,
                   error |-> 0]
        ELSE IF 2 * (actual - max_ideal) > max_ideal THEN [value |-> 0, error |-> 0]
        ELSE IF 2 * (actual - max_ideal) = max_ideal
        THEN [value |-> 0,
              error |-> IF HalfDeviationReached(actual, max_ideal) THEN 0 ELSE 1]
        ELSE [value |-> 800000 - (1600000 * (actual - max_ideal) + max_ideal \div 2)
                                     \div max_ideal,
              error |-> 0]

\* str.lower on ASCII
Lower(str) == [i \in 1..Len(str) |-> IF IsUpperChar(str[i]) THEN str[i] + 32 ELSE str[i]]

\* round(sum(scores), 1): the sum in place of the mean
RoundSum1(total, count) == {(total + 500) \div 1000}

\* round(sum(scores) / len(scores), 1) in tenths, the scores being known to
\* half a unit of 10^-4 each: where their mean is within that of half way
\* between two tenths, both are outcomes
RoundMean1(total, count) ==
    IF 2 * Abs((total % (1000 * count)) - 500 * count) <= count
    THEN {total \div (1000 * count), total \div (1000 * count) + 1}
    ELSE {(total + 500 * count) \div (1000 * count)}

\* gender is a string, "" standing for None as well (if gender and ...)
calculate_symmetry_score_from_ratios(shoulder_to_waist, waist_to_hip, chest_to_waist, arm_to_chest, leg_to_torso, gender) ==
    RoundMean1(
        score_ratio(shoulder_to_waist, IDEAL_RATIOS.shoulder_to_waist).value
        + score_ratio(waist_to_hip,
                      IF gender # <<>> /\ Lower(gender) = <<102, 101, 109, 97, 108, 101>>
                      THEN IDEAL_RATIOS.waist_to_hip_female
                      ELSE IDEAL_RATIOS.waist_to_hip_male).value
        + score_ratio(chest_to_waist, IDEAL_RATIOS.chest_to_waist).value
        + score_ratio(arm_to_chest, IDEAL_RATIOS.arm_to_chest).value
        + (IF leg_to_torso # <<>> /\ leg_to_torso # <<0>>
           THEN score_ratio(leg_to_torso[1], IDEAL_RATIOS.thigh_to_waist).value ELSE 0),
        IF leg_to_torso # <<>> /\ leg_to_torso # <<0>> THEN 5 ELSE 4)

\* the BodyRatios objects built from the ratios
BodyRatiosOf(shoulder_to_waist, waist_to_hip, chest_to_waist, arm_to_chest, leg_to_torso, gender) ==
    { [ shoulder_to_waist_ratio |-> shoulder_to_waist,
        adonis_index            |-> shoulder_to_waist,
        golden_ratio_deviation  |-> Abs(shoulder_to_waist - GoldenRatio),
        waist_to_hip_ratio      |-> waist_to_hip,
        chest_to_waist_ratio    |-> chest_to_waist,
        arm_to_chest_ratio      |-> arm_to_chest,
        leg_to_torso_ratio      |-> leg_to_torso,
        symmetry_score          |-> symmetry_score ] :
          symmetry_score \in calculate_symmetry_score_from_ratios(
              shoulder_to_waist, waist_to_hip, chest_to_waist, arm_to_chest,
              leg_to_torso, gender) }

\* one of the outcomes is an exception
Raised(outcomes) == \E o \in outcomes : "raises" \in DOMAIN o

\* the outcomes of calculate_all_body_ratios from those of the ratio
\* functions in the order they are called: the first exception propagates
BodyRatiosOutcomes(stw, whr, ctw, atc, ltt, gender) ==
    IF Raised(stw) THEN stw
    ELSE IF Raised(whr) THEN whr
    ELSE IF Raised(ctw) THEN ctw
    ELSE IF Raised(atc) THEN atc
    ELSE IF Raised(ltt) THEN ltt
    ELSE UNION { { [value |-> b] :
                       b \in BodyRatiosOf(o1.value, o2.value, o3.value, o4.value,
                                          o5.value, gender) } :
                     o1 \in stw, o2 \in whr, o3 \in ctw, o4 \in atc, o5 \in ltt }

\* shoulder_width_cm and thigh_circumference_cm 0 stand for None as well
\* (if measurements.shoulder_width_cm, if thigh)
calculate_all_body_ratios(measurements, gender) ==
    BodyRatiosOutcomes(
        calculate_adonis_index(
            IF measurements.shoulder_width_cm # 0
            THEN [n |-> 20 * measurements.shoulder_width_cm,
                  exact |-> IsDouble(measurements.shoulder_width_cm)]
            ELSE [n |-> 23 * measurements.chest_circumference_cm,
                  exact |-> measurements.chest_circumference_cm = 0],
            measurements.waist_circumference_cm),
        calculate_waist_to_hip_ratio(measurements.waist_circumference_cm,
                                     measurements.hip_circumference_cm),
        calculate_chest_to_waist_ratio(measurements.chest_circumference_cm,
                                       measurements.waist_circumference_cm),
        calculate_arm_to_chest_ratio(measurements.bicep_circumference_cm,
                                     measurements.chest_circumference_cm),
        IF measurements.thigh_circumference_cm # 0
        THEN { IF "raises" \in DOMAIN o THEN o ELSE [value |-> <<o.value>>] :
                   o \in calculate_leg_to_torso_ratio(measurements.thigh_circumference_cm,
                                                      measurements.waist_circumference_cm) }
        ELSE { [value |-> <<>>] },
        gender)

-----------------------------------------------------------------------------
(* Calls of the ratio calculator: the arguments are drawn when the call
   starts, the result is None until it returns or raises. *)

\* fields outside the schema's ranges as well, which the functions test for
RatioMeasurements ==
    [ chest_circumference_cm : {0, 5000, 10000, 20000},
      waist_circumference_cm : {0 - 100, 0, 5000, 8000, 20000},
      hip_circumference_cm   : {0, 5000, 9500, 20000},
      bicep_circumference_cm : {2000, 3800, 6000},
      thigh_circumference_cm : {0, 3000, 5800, 10000},
      shoulder_width_cm      : {0, 3000, 4800, 8000} ]

\* "" (and None), "male", "female", "FEMALE", "other"
Genders ==
    { <<>>, <<109, 97, 108, 101>>, <<102, 101, 109, 97, 108, 101>>,
      <<70, 69, 77, 65, 76, 69>>, <<111, 116, 104, 101, 114>> }

AdonisArguments ==
    [ shoulder_width_cm      : {0, 75, 4500, 4508, 5000, 8500},
      waist_circumference_cm : {0 - 8000, 0 - 1, 0, 1, 2000, 8000} ]

ScoreRatioArguments ==
    [ actual      : 0..2600,
      ideal_range : { IDEAL_RATIOS[name] : name \in DOMAIN IDEAL_RATIOS } ]

RatioCalls ==
    { [op |-> "calculate_adonis_index", arguments |-> a, result |-> None] :
          a \in AdonisArguments }
    \cup { [op |-> "calculate_all_body_ratios",
            arguments |-> [measurements |-> m, gender |-> g], result |-> None] :
               m \in RatioMeasurements, g \in Genders }
    \cup { [op |-> "score_ratio", arguments |-> a, result |-> None] :
               a \in ScoreRatioArguments }

InitRatio ==
    /\ now = 0
    /\ limiter = None
    /\ pool = None
    /\ retry = None
    /\ scanCall = None
    /\ hashCalls = <<>>
    /\ hashCheck = None
    /\ sigCall = None
    /\ parseCall = None
    /\ typeCall = None
    /\ goldenCalls = <<>>
    /\ scoreCall = None
    /\ confCall = None
    /\ ratioCall \in RatioCalls
    /\ compareCall = None
    /\ validationCall = None

CalculateAdonisIndex ==
    /\ ratioCall # None
    /\ ratioCall.op = "calculate_adonis_index"
    /\ ratioCall.result = None
    /\ \E o \in calculate_adonis_index(
                    [n |-> 20 * ratioCall.arguments.shoulder_width_cm,
                     exact |-> IsDouble(ratioCall.arguments.shoulder_width_cm)],
                    ratioCall.arguments.waist_circumference_cm) :
           ratioCall' = [ratioCall EXCEPT !.result = o]
    /\ UNCHANGED <<limiter, pool, retry, scanCall, now, hashCalls, hashCheck, sigCall, parseCall, typeCall,
                   goldenCalls, scoreCall, confCall, compareCall, validationCall>>

CalculateAllBodyRatios ==
    /\ ratioCall # None
    /\ ratioCall.op = "calculate_all_body_ratios"
    /\ ratioCall.result = None
    /\ \E o \in calculate_all_body_ratios(ratioCall.arguments.measurements,
                                          ratioCall.arguments.gender) :
           ratioCall' = [ratioCall EXCEPT !.result = o]
    /\ UNCHANGED <<limiter, pool, retry, scanCall, now, hashCalls, hashCheck, sigCall, parseCall, typeCall,
                   goldenCalls, scoreCall, confCall, compareCall, validationCall>>

ScoreRatio ==
    /\ ratioCall # None
    /\ ratioCall.op = "score_ratio"
    /\ ratioCall.result = None
    /\ ratioCall' = [ratioCall EXCEPT
                         !.result = score_ratio(ratioCall.arguments.actual,
                                                ratioCall.arguments.ideal_range)]
    /\ UNCHANGED <<limiter, pool, retry, scanCall, now, hashCalls, hashCheck, sigCall, parseCall, typeCall,
                   goldenCalls, scoreCall, confCall, compareCall, validationCall>>

NextRatio ==
    \/ CalculateAdonisIndex
    \/ CalculateAllBodyRatios
    \/ ScoreRatio

SpecRatio == InitRatio /\ [][NextRatio]_vars

\* the call of the function op has returned or raised
Returned(op) ==
    ratioCall # None /\ ratioCall.op = op /\ ratioCall.result # None

\* C11: calculate_adonis_index returns shoulder_width / waist rounded to 3
\* decimals when waist > 0 and raises when waist <= 0; calculate_all_body_ratios
\* raises, and returns no BodyRatios, whenever waist, hip or chest is <= 0.
C11_AdonisIndexOrError ==
    /\ Returned("calculate_adonis_index") =>
           IF ratioCall.arguments.waist_circumference_cm <= 0
           THEN "raises" \in DOMAIN ratioCall.result
           ELSE /\ "value" \in DOMAIN ratioCall.result
                /\ 2 * Abs(ratioCall.result.value * ratioCall.arguments.waist_circumference_cm
                           - 1000 * ratioCall.arguments.shoulder_width_cm)
                       <= ratioCall.arguments.waist_circumference_cm
    /\ Returned("calculate_all_body_ratios") =>
           ("raises" \in DOMAIN ratioCall.result
                <=> \/ ratioCall.arguments.measurements.waist_circumference_cm <= 0
                    \/ ratioCall.arguments.measurements.hip_circumference_cm <= 0
                    \/ ratioCall.arguments.measurements.chest_circumference_cm <= 0)

\* calculate_all_body_ratios has raised for a hip circumference of 0 with a
\* positive waist and chest
C11_HipErrorPropagated ==
    /\ Returned("calculate_all_body_ratios")
    /\ ratioCall.arguments.measurements.waist_circumference_cm > 0
    /\ ratioCall.arguments.measurements.chest_circumference_cm > 0
    /\ ratioCall.arguments.measurements.hip_circumference_cm = 0
    /\ ratioCall.result = [raises |-> "Hip circumference must be positive"]

\* the measurements pass the Field ranges and the validator of BodyMeasurements
InSchema(m) ==
    /\ 5000 <= m.chest_circumference_cm /\ m.chest_circumference_cm <= 20000
    /\ 5000 <= m.waist_circumference_cm /\ m.waist_circumference_cm <= 20000
    /\ 2 * m.waist_circumference_cm <= 3 * m.chest_circumference_cm
    /\ 5000 <= m.hip_circumference_cm /\ m.hip_circumference_cm <= 20000
    /\ 2000 <= m.bicep_circumference_cm /\ m.bicep_circumference_cm <= 6000
    /\ 3000 <= m.thigh_circumference_cm /\ m.thigh_circumference_cm <= 10000
    /\ m.shoulder_width_cm = 0
           \/ (3000 <= m.shoulder_width_cm /\ m.shoulder_width_cm <= 8000)

\* C12: for measurements within the schema's ranges and any gender, the
\* BodyRatios of calculate_all_body_ratios has all its ratios strictly
\* positive and its symmetry_score within [0, 100].
C12_RatiosPositiveSymmetryInRange ==
    (Returned("calculate_all_body_ratios") /\ InSchema(ratioCall.arguments.measurements)) =>
        /\ "value" \in DOMAIN ratioCall.result
        /\ ratioCall.result.value.shoulder_to_waist_ratio > 0
        /\ ratioCall.result.value.waist_to_hip_ratio > 0
        /\ ratioCall.result.value.chest_to_waist_ratio > 0
        /\ ratioCall.result.value.arm_to_chest_ratio > 0
        /\ \A i \in 1..Len(ratioCall.result.value.leg_to_torso_ratio) :
               ratioCall.result.value.leg_to_torso_ratio[i] > 0
        /\ 0 <= ratioCall.result.value.symmetry_score
        /\ ratioCall.result.value.symmetry_score <= 1000

\* a BodyRatios has been returned for the narrowest shoulders on the widest
\* waist of the schema (30 cm over 200 cm), every ratio far from its ideal
C12_Witness ==
    /\ Returned("calculate_all_body_ratios")
    /\ InSchema(ratioCall.arguments.measurements)
    /\ ratioCall.arguments.measurements.shoulder_width_cm = 3000
    /\ ratioCall.arguments.measurements.waist_circumference_cm = 20000
    /\ "value" \in DOMAIN ratioCall.result
    /\ ratioCall.result.value.shoulder_to_waist_ratio = 150
    /\ ratioCall.result.value.leg_to_torso_ratio # <<>>

\* the score of a score_ratio call is exactly the number of points
ScoreIs(points) ==
    ratioCall.result.value = 10000 * points /\ ratioCall.result.error = 0

\* C17: score_ratio(actual, (lo, hi)) is within [80, 100] exactly when
\* lo <= actual <= hi and 100 exactly at the midpoint; outside the range it
\* is below 80 and 80 * (1 - deviation / 0.5) for the relative deviation from
\* the nearer bound, and 0 exactly when that deviation is 50% or more; it is
\* always within [0, 100].
C17_ScoreRatio ==
    Returned("score_ratio") =>
        LET actual == ratioCall.arguments.actual
            lo     == ratioCall.arguments.ideal_range[1]
            hi     == ratioCall.arguments.ideal_range[2]
            score  == ratioCall.result.value
        IN  /\ 0 <= score /\ score <= 1000000
            /\ (lo <= actual /\ actual <= hi) <=> score >= 800000
            /\ ScoreIs(100) <=> 2 * actual = lo + hi
            /\ actual < lo =>
                   /\ ScoreIs(0) <=> 2 * (lo - actual) >= lo
                   /\ 2 * (lo - actual) < lo
                          => Abs(score * lo - (800000 * lo - 1600000 * (lo - actual))) <= lo
            /\ actual > hi =>
                   /\ ScoreIs(0) <=> 2 * (actual - hi) >= hi
                   /\ 2 * (actual - hi) < hi
                          => Abs(score * hi - (800000 * hi - 1600000 * (actual - hi))) <= hi

\* score_ratio(2.55, (1.4, 1.7)) has returned: 2.55 is 50% above 1.7
C17_HalfDeviationScored ==
    /\ Returned("score_ratio")
    /\ ratioCall.arguments.actual = 2550
    /\ ratioCall.arguments.ideal_range = <<1400, 1700>>
    /\ ratioCall.result.error = 1

-----------------------------------------------------------------------------
(* services/scan_assembler.py.  Of a ScanResult the model keeps the fields
   compare_scans and validate_scan_result read: body fat, overall and
   component scores in hundredths, adonis_index in thousandths, the ratios'
   symmetry_score in tenths, the timestamp in hours.  Rounded changes are in
   tenths (adonis_index_change in hundredths).  An entry of progress_summary
   is the tuple of the pieces of its f-string, a formatted number being the
   number of tenths. *)

\* time_diff.days
DaysApart(current_scan, previous_scan) == (current_scan.timestamp - previous_scan.timestamp) \div 24

\* the entry of the body fat rule, if any
BodyFatSummary(bf_change) ==
    IF FlCompare(bf_change, Fl(0 - 1000)) < 0
    THEN << <<"Lost ", Abs(FlRoundTo(bf_change, 100)) \div 100, "% body fat - Excellent!">> >>
    ELSE IF FlCompare(bf_change, Fl(1000)) > 0
    THEN << <<"Gained ", FlRoundTo(bf_change, 100) \div 100, "% body fat">> >>
    ELSE << >>

\* the entry of the aesthetic score rule, if any
ScoreSummary(score_change) ==
    IF FlCompare(score_change, Fl(5000)) > 0
    THEN << <<"Aesthetic score improved by ", FlRoundTo(score_change, 100) \div 100, " points">> >>
    ELSE IF FlCompare(score_change, Fl(0 - 5000)) < 0
    THEN << <<"Aesthetic score decreased by ", Abs(FlRoundTo(score_change, 100)) \div 100, " points">> >>
    ELSE << >>

\* the entry of the Adonis index rule, if any
AdonisSummary(adonis_change) ==
    IF FlCompare(adonis_change, Fl(50)) > 0
    THEN << <<"Improved shoulder:waist ratio (better V-taper)">> >>
    ELSE << >>

\* the comparison built from the four changes
ComparisonOf(bf_change, score_change, adonis_change, symmetry_change, days_apart, type_changed) ==
    LET summary == BodyFatSummary(bf_change) \o ScoreSummary(score_change) \o AdonisSummary(adonis_change)
    IN  [ time_between_scans_days |-> days_apart,
          changes |-> [ body_fat_change_percent |-> FlRoundTo(bf_change, 100) \div 100,
                        aesthetic_score_change  |-> FlRoundTo(score_change, 100) \div 100,
                        adonis_index_change     |-> FlRoundTo(adonis_change, 10) \div 10,
                        symmetry_score_change   |-> FlRoundTo(symmetry_change, 100) \div 100 ],
          body_type_changed |-> type_changed,
          progress_summary |-> IF summary = << >>
                               THEN << <<"Minimal changes - maintain consistency">> >>
                               ELSE summary ]

compare_scans(current_scan, previous_scan) ==
    ComparisonOf(FlSub(Fl(10 * current_scan.measurements.body_fat_percent),
                       Fl(10 * previous_scan.measurements.body_fat_percent)),
                 FlSub(Fl(10 * current_scan.aesthetic_score.overall_score),
                       Fl(10 * previous_scan.aesthetic_score.overall_score)),
                 FlSub(Fl(current_scan.ratios.adonis_index),
                       Fl(previous_scan.ratios.adonis_index)),
                 FlSub(Fl(100 * current_scan.ratios.symmetry_score),
                       Fl(100 * previous_scan.ratios.symmetry_score)),
                 DaysApart(current_scan, previous_scan),
                 current_scan.aesthetic_score.body_type # previous_scan.aesthetic_score.body_type)

-----------------------------------------------------------------------------
(* Calls of compare_scans: the two scans are drawn when the call starts, the
   result is None until it returns.  Each field is drawn as a pair <<current,
   previous>>: differences of exactly 1, 5 and 0.05, both as sums of doubles
   that give the decimal and as sums that do not, differences past the
   thresholds, and differences half way between two tenths. *)

CompareBodyFat ==
    { <<1280, 1450>>, <<1450, 1280>>, <<1400, 1300>>, <<1300, 1400>>, <<440, 340>>,
      <<340, 440>>, <<1300, 1300>>, <<1325, 1450>>, <<1200, 1305>>, <<1500, 2750>> }

CompareScore ==
    { <<7000, 7000>>, <<7600, 7000>>, <<7000, 7600>>, <<7500, 7000>>, <<830, 330>>, <<330, 830>> }

CompareAdonis ==
    { <<1500, 1500>>, <<1600, 1500>>, <<1500, 1600>>, <<1618, 1568>>, <<1550, 1500>>, <<1250, 1200>> }

CompareSymmetry == { <<800, 800>>, <<855, 790>> }

CompareBodyType == { <<"VTAPER", "VTAPER">>, <<"VTAPER", "RECTANGLE">> }

CompareTimestamp == { <<672, 0>>, <<30, 40>> }

ComparedScan(bf, score, adonis, symmetry, body_type, timestamp, i) ==
    [ measurements    |-> [ body_fat_percent |-> bf[i] ],
      aesthetic_score |-> [ overall_score |-> score[i], body_type |-> body_type[i] ],
      ratios          |-> [ adonis_index |-> adonis[i], symmetry_score |-> symmetry[i] ],
      timestamp       |-> timestamp[i] ]

CompareCalls ==
    { [ current_scan  |-> ComparedScan(bf, score, adonis, symmetry, body_type, timestamp, 1),
        previous_scan |-> ComparedScan(bf, score, adonis, symmetry, body_type, timestamp, 2),
        result        |-> None ] :
          bf \in CompareBodyFat, score \in CompareScore, adonis \in CompareAdonis,
          symmetry \in CompareSymmetry, body_type \in CompareBodyType,
          timestamp \in CompareTimestamp }

InitCompare ==
    /\ now = 0
    /\ limiter = None
    /\ pool = None
    /\ retry = None
    /\ scanCall = None
    /\ hashCalls = << >>
    /\ hashCheck = None
    /\ sigCall = None
    /\ parseCall = None
    /\ typeCall = None
    /\ goldenCalls = << >>
    /\ scoreCall = None
    /\ confCall = None
    /\ ratioCall = None
    /\ compareCall \in CompareCalls
    /\ validationCall = None

CompareScans ==
    /\ compareCall # None
    /\ compareCall.result = None
    /\ compareCall' = [compareCall EXCEPT !.result = compare_scans(compareCall.current_scan, compareCall.previous_scan)]
    /\ UNCHANGED <<limiter, pool, retry, scanCall, now, hashCalls, hashCheck, sigCall, parseCall, typeCall, goldenCalls, scoreCall, confCall, ratioCall, validationCall>>

NextCompare == CompareScans

SpecCompare == InitCompare /\ [][NextCompare]_vars

-----------------------------------------------------------------------------
(* Claims about compare_scans. *)

\* the decimal changes between the two scans of the call: body fat and
\* aesthetic score in hundredths, Adonis index in thousandths
BodyFatDifference == compareCall.current_scan.measurements.body_fat_percent - compareCall.previous_scan.measurements.body_fat_percent

ScoreDifference == compareCall.current_scan.aesthetic_score.overall_score - compareCall.previous_scan.aesthetic_score.overall_score

AdonisDifference == compareCall.current_scan.ratios.adonis_index - compareCall.previous_scan.ratios.adonis_index

Compared == compareCall # None /\ compareCall.result # None

Minimal == << <<"Minimal changes - maintain consistency">> >>

\* C13: progress_summary has 1 to 3 entries, and it is the single entry
\* "Minimal changes - maintain consistency" exactly when |body fat change|
\* <= 1, |aesthetic score change| <= 5 and Adonis change <= 0.05.
C13_SummaryFollowsThresholds ==
    Compared =>
        /\ Len(compareCall.result.progress_summary) \in 1..3
        /\ (compareCall.result.progress_summary = Minimal)
              <=> (Abs(BodyFatDifference) <= 100 /\ Abs(ScoreDifference) <= 500 /\ AdonisDifference <= 50)

\* an Adonis index of 1.618 after 1.568, body fat and score unchanged: no
\* change is past its threshold, and the summary is not the minimal one
C13_ThresholdChangeReported ==
    /\ Compared
    /\ BodyFatDifference = 0
    /\ ScoreDifference = 0
    /\ compareCall.current_scan.ratios.adonis_index = 1618
    /\ compareCall.previous_scan.ratios.adonis_index = 1568
    /\ compareCall.result.changes.adonis_index_change = 5
    /\ compareCall.result.progress_summary = << <<"Improved shoulder:waist ratio (better V-taper)">> >>

\* C14: body_fat_change_percent is current minus previous body fat rounded to
\* 1 decimal (either neighbour when the difference is half way; -1.7 for
\* 14.5 -> 12.8), and when the difference is below -1 the summary has an
\* entry "Lost X% body fat - Excellent!", X the absolute difference to 1
\* decimal.
C14_BodyFatChangeReported ==
    Compared =>
        /\ Abs(10 * compareCall.result.changes.body_fat_change_percent - BodyFatDifference) <= 5
        /\ (compareCall.current_scan.measurements.body_fat_percent = 1280
              /\ compareCall.previous_scan.measurements.body_fat_percent = 1450)
               => compareCall.result.changes.body_fat_change_percent = 0 - 17
        /\ BodyFatDifference < 0 - 100 =>
               \E i \in DOMAIN compareCall.result.progress_summary :
                   LET entry == compareCall.result.progress_summary[i]
                   IN  /\ Len(entry) = 3
                       /\ entry[1] = "Lost "
                       /\ entry[3] = "% body fat - Excellent!"
                       /\ Abs(10 * entry[2] + BodyFatDifference) <= 5

\* Scenario 5: 14.5% -> 12.8% in 28 days
C14_Scenario5Compared ==
    /\ Compared
    /\ compareCall.current_scan.measurements.body_fat_percent = 1280
    /\ compareCall.previous_scan.measurements.body_fat_percent = 1450
    /\ compareCall.result.time_between_scans_days = 28
    /\ compareCall.result.changes.body_fat_change_percent = 0 - 17
    /\ compareCall.result.progress_summary[1] = <<"Lost ", 17, "% body fat - Excellent!">>

-----------------------------------------------------------------------------
(* validate_scan_result.  body_signature_id and composition_hash are
   sequences of characters, the empty one standing for None and "". *)

\* whether waist > chest * 1.2 in doubles, measurements in hundredths of cm.
\* Off the decimal boundary the decimals decide.  On it, a chest that is a
\* double gives the product chest * double(1.2) exactly, which rounds to a
\* double to compare with the waist's; for another chest either can happen.
WaistLargerThanChest(waist, chest) ==
    IF 10 * waist # 12 * chest THEN {10 * waist > 12 * chest}
    ELSE IF chest = 0 THEN {FALSE}
    ELSE IF chest % 25 = 0
    THEN {FlCompare(Fl(10 * waist), FlRound(12 * chest, (chest \div 25) * (Fl(1200).e \div 4))) > 0}
    ELSE {TRUE, FALSE}

\* the validation built from the outcome of each check
ValidationOf(no_id, no_hash, waist_larger, extreme_fat, low_confidence, sum_error) ==
    [ is_valid |-> ~(no_id \/ no_hash \/ sum_error),
      errors   |-> (IF no_id THEN <<"Missing body signature ID">> ELSE << >>)
                \o (IF no_hash THEN <<"Missing composition hash">> ELSE << >>)
                \o (IF sum_error THEN <<"Aesthetic score components don't sum correctly">> ELSE << >>),
      warnings |-> (IF waist_larger THEN <<"Waist larger than chest - may indicate measurement error">> ELSE << >>)
                \o (IF extreme_fat THEN <<"Body fat percentage seems extreme">> ELSE << >>)
                \o (IF low_confidence THEN <<"Low confidence score - results may be unreliable">> ELSE << >>) ]

\* the validations validate_scan_result can return
validate_scan_result(scan_result) ==
    { ValidationOf(scan_result.body_signature_id = << >>,
                   scan_result.composition_hash = << >>,
                   waist_larger,
                   scan_result.measurements.body_fat_percent < 500
                       \/ scan_result.measurements.body_fat_percent > 5000,
                   scan_result.confidence.overall_confidence < 700,
                   ComponentsSumError(scan_result.aesthetic_score)) :
          waist_larger \in WaistLargerThanChest(scan_result.measurements.waist_circumference_cm,
                                                scan_result.measurements.chest_circumference_cm) }

-----------------------------------------------------------------------------
(* Calls of validate_scan_result: the scan is drawn when the call starts, the
   result is None until it returns.  The scores are drawn with sums exactly
   0.5 from the overall score (as doubles on either side of it), further and
   nearer; the measurements on and off the three warning thresholds. *)

ValidatedScores ==
    { [ golden_ratio_score |-> t[1], symmetry_score |-> t[2], composition_score |-> t[3],
        posture_score |-> t[4], overall_score |-> t[5] ] :
          t \in { <<3500, 2500, 2000, 800, 8800>>, <<3500, 2500, 2000, 800, 8850>>,
                  <<3500, 2500, 2000, 800, 8750>>, <<3500, 2500, 2000, 800, 8860>>,
                  <<3500, 2500, 2000, 800, 8740>>, <<2570, 1370, 500, 30, 4520>>,
                  <<2570, 1370, 500, 30, 4470>>, <<1550, 2580, 2000, 660, 6840>>,
                  <<900, 1660, 1200, 170, 3880>>, <<0, 0, 500, 0, 500>> } }

ValidatedMeasurements ==
    [ waist_circumference_cm : {8000, 10200, 12000},
      chest_circumference_cm : {8500, 10000, 10001},
      body_fat_percent       : {490, 500, 1500, 5000, 5010} ]

ValidatedScans ==
    [ body_signature_id : {<< >>, Join5(GoodPieces)},   \* "", "VTaper-BF15.5-A3F7C2-AI1.54"
      composition_hash  : {<< >>, <<97, 51, 102, 55, 99, 50>>},   \* "", "a3f7c2"
      measurements      : ValidatedMeasurements,
      confidence        : [ overall_confidence : {690, 700, 950} ],
      aesthetic_score   : ValidatedScores ]

InitValidation ==
    /\ now = 0
    /\ limiter = None
    /\ pool = None
    /\ retry = None
    /\ scanCall = None
    /\ hashCalls = << >>
    /\ hashCheck = None
    /\ sigCall = None
    /\ parseCall = None
    /\ typeCall = None
    /\ goldenCalls = << >>
    /\ scoreCall = None
    /\ confCall = None
    /\ ratioCall = None
    /\ compareCall = None
    /\ validationCall \in { [ scan_result |-> scan, result |-> None ] : scan \in ValidatedScans }

ValidateScanResult ==
    /\ validationCall # None
    /\ validationCall.result = None
    /\ \E validation \in validate_scan_result(validationCall.scan_result) :
           validationCall' = [validationCall EXCEPT !.result = validation]
    /\ UNCHANGED <<limiter, pool, retry, scanCall, now, hashCalls, hashCheck, sigCall, parseCall, typeCall, goldenCalls, scoreCall, confCall, ratioCall, compareCall>>

NextValidation == ValidateScanResult

SpecValidation == InitValidation /\ [][NextValidation]_vars

-----------------------------------------------------------------------------
(* Claims about validate_scan_result. *)

Validated == validationCall # None /\ validationCall.result # None

\* the decimal difference of the four sub-scores from overall_score, in
\* hundredths
SubScoreDifference ==
    Abs(ComponentSum(validationCall.scan_result.aesthetic_score) - validationCall.scan_result.aesthetic_score.overall_score)

HasWarning(text) == \E i \in DOMAIN validationCall.result.warnings : validationCall.result.warnings[i] = text

\* C15: is_valid is False exactly when errors is non-empty, which is exactly
\* when body_signature_id is missing, composition_hash is missing or the four
\* sub-scores differ from overall_score by more than 0.5; waist > 1.2 x chest,
\* body fat outside [5, 50] and confidence below 0.7 each add a warning and
\* leave is_valid alone.
C15_ValidExactlyWithoutErrors ==
    Validated =>
        /\ validationCall.result.is_valid <=> validationCall.result.errors = << >>
        /\ validationCall.result.errors # << >>
              <=> \/ validationCall.scan_result.body_signature_id = << >>
                  \/ validationCall.scan_result.composition_hash = << >>
                  \/ SubScoreDifference > 50
        /\ 10 * validationCall.scan_result.measurements.waist_circumference_cm
              > 12 * validationCall.scan_result.measurements.chest_circumference_cm
              => HasWarning("Waist larger than chest - may indicate measurement error")
        /\ (validationCall.scan_result.measurements.body_fat_percent < 500
              \/ validationCall.scan_result.measurements.body_fat_percent > 5000)
              => HasWarning("Body fat percentage seems extreme")
        /\ validationCall.scan_result.confidence.overall_confidence < 700
              => HasWarning("Low confidence score - results may be unreliable")

\* sub-scores 25.7, 13.7, 5.0 and 0.3 with overall score 45.2, both
\* identifiers present: the difference is 0.5, and the scan is invalid
C15_HalfPointDifferenceRejected ==
    /\ Validated
    /\ validationCall.scan_result.body_signature_id # << >>
    /\ validationCall.scan_result.composition_hash # << >>
    /\ validationCall.scan_result.aesthetic_score.golden_ratio_score = 2570
    /\ validationCall.scan_result.aesthetic_score.overall_score = 4520
    /\ SubScoreDifference = 50
    /\ ~validationCall.result.is_valid
    /\ validationCall.result.errors = <<"Aesthetic score components don't sum correctly">>

-----------------------------------------------------------------------------
(* Claims about the ranges of the aesthetic score and about the composition
   score, on the calls of calculate_aesthetic_score. *)

Scored == scoreCall # None /\ scoreCall.result # None

\* C16: for posture 0-10, body fat 3-60 and a symmetry score in [0, 100] the
\* AestheticScore has 0 <= golden_ratio_score <= 40, 0 <= symmetry_score <= 30,
\* 0 <= composition_score <= 20, 0 <= posture_score <= 10 and
\* 0 <= overall_score <= 100.
C16_ScoresWithinRanges ==
    (/\ Scored
     /\ scoreCall.measurements.posture_rating \in 0..1000
     /\ scoreCall.measurements.body_fat_percent \in 300..6000
     /\ scoreCall.ratios.symmetry_score \in 0..1000) =>
        /\ scoreCall.result.golden_ratio_score \in 0..4000
        /\ scoreCall.result.symmetry_score \in 0..3000
        /\ scoreCall.result.composition_score \in 0..2000
        /\ scoreCall.result.posture_score \in 0..1000
        /\ scoreCall.result.overall_score \in 0..10000

\* every component at its maximum: the overall score is 100
C16_MaximumScored ==
    /\ Scored
    /\ scoreCall.ratios.adonis_index = 1618
    /\ scoreCall.ratios.symmetry_score = 1000
    /\ scoreCall.measurements.body_fat_percent = 1250
    /\ scoreCall.measurements.posture_rating = 1000
    /\ scoreCall.result.golden_ratio_score = 4000
    /\ scoreCall.result.symmetry_score = 3000
    /\ scoreCall.result.composition_score = 2000
    /\ scoreCall.result.posture_score = 1000
    /\ scoreCall.result.overall_score = 10000

\* the table of C18, body fat in hundredths
CompositionTable(bf) ==
    IF 1000 <= bf /\ bf <= 1500 THEN 2000
    ELSE IF (800 <= bf /\ bf < 1000) \/ (1500 < bf /\ bf <= 1800) THEN 1800
    ELSE IF (500 <= bf /\ bf < 800) \/ (1800 < bf /\ bf <= 2200) THEN 1500
    ELSE IF 2200 < bf /\ bf <= 3000 THEN 1200
    ELSE 500

BodyFatPercents == { m.body_fat_percent : m \in ScoreMeasurements }

CompositionScoreAt(bf) == calculate_composition_score([body_fat_percent |-> bf])

\* C18: calculate_composition_score returns 20 for 10 <= bf <= 15, 18 for
\* 8 <= bf < 10 or 15 < bf <= 18, 15 for 5 <= bf < 8 or 18 < bf <= 22, 12 for
\* 22 < bf <= 30 and 5 for bf < 5 or bf > 30, and never increases as the body
\* fat moves away from the 10-15 band.
C18_CompositionTable ==
    /\ Scored =>
           /\ scoreCall.result.composition_score = CompositionTable(scoreCall.measurements.body_fat_percent)
           /\ scoreCall.result.composition_score = CompositionScoreAt(scoreCall.measurements.body_fat_percent)
    /\ \A a, b \in BodyFatPercents :
           /\ (1500 <= a /\ a <= b) => CompositionScoreAt(b) <= CompositionScoreAt(a)
           /\ (b <= a /\ a <= 1000) => CompositionScoreAt(b) <= CompositionScoreAt(a)

\* a body fat of exactly 15% scored 20 points
C18_BandEdgeScored ==
    /\ Scored
    /\ scoreCall.measurements.body_fat_percent = 1500
    /\ scoreCall.result.composition_score = 2000

-----------------------------------------------------------------------------
(* Calls of _calculate_consistency_factor and _calculate_ai_factor: the
   arguments are drawn when the call starts, the result is None until it
   returns.  The frames are chests with shoulder widths at 0.3 and 0.8 of
   them (as decimals that are doubles and as decimals that are not), between
   the two and outside; the waist is the chest plus an offset. *)

FactorFrames ==
    { <<10000, 4500>>, <<12000, 3000>>, <<10000, 3000>>, <<10720, 3216>>,
      <<6000, 4800>>, <<5105, 4084>>, <<6100, 8000>> }

FactorBodies ==
    { <<1500, "moderate">>, <<2500, "high">>, <<2000, "high">>, <<900, "low">>,
      <<1000, "low">>, <<2500, "low">> }

FactorMeasurements ==
    { [ chest_circumference_cm |-> f[1], shoulder_width_cm |-> f[2],
        waist_circumference_cm |-> f[1] + w, bicep_circumference_cm |-> b,
        thigh_circumference_cm |-> 5500, calf_circumference_cm |-> c,
        body_fat_percent |-> bd[1], muscle_definition |-> bd[2] ] :
          f \in FactorFrames, w \in {0 - 100, 0, 100}, b \in {3500, 5500, 5600},
          c \in {3800, 5500, 5700}, bd \in FactorBodies }

AiArguments ==
    [ finish_reason       : {"stop", "length", "content_filter"},
      extraction_strategy : {"direct_parse", "markdown_strip", "regex_extract",
                             "error_fix", "ai_repair", "unknown"} ]

FactorCalls ==
    { [op |-> "_calculate_consistency_factor", arguments |-> m, result |-> None] :
          m \in FactorMeasurements }
    \cup { [op |-> "_calculate_ai_factor", arguments |-> a, result |-> None] :
               a \in AiArguments }

InitFactor ==
    /\ now = 0
    /\ limiter = None
    /\ pool = None
    /\ retry = None
    /\ scanCall = None
    /\ hashCalls = << >>
    /\ hashCheck = None
    /\ sigCall = None
    /\ parseCall = None
    /\ typeCall = None
    /\ goldenCalls = << >>
    /\ scoreCall = None
    /\ confCall \in FactorCalls
    /\ ratioCall = None
    /\ compareCall = None
    /\ validationCall = None

CalculateConsistencyFactor ==
    /\ confCall # None
    /\ confCall.op = "_calculate_consistency_factor"
    /\ confCall.result = None
    /\ confCall' = [confCall EXCEPT !.result = [value |-> _calculate_consistency_factor(confCall.arguments)]]
    /\ UNCHANGED <<limiter, pool, retry, scanCall, now, hashCalls, hashCheck, sigCall, parseCall, typeCall, goldenCalls, scoreCall, ratioCall, compareCall, validationCall>>

CalculateAiFactor ==
    /\ confCall # None
    /\ confCall.op = "_calculate_ai_factor"
    /\ confCall.result = None
    /\ confCall' = [confCall EXCEPT !.result = [value |-> _calculate_ai_factor(confCall.arguments.finish_reason, confCall.arguments.extraction_strategy)]]
    /\ UNCHANGED <<limiter, pool, retry, scanCall, now, hashCalls, hashCheck, sigCall, parseCall, typeCall, goldenCalls, scoreCall, ratioCall, compareCall, validationCall>>

NextFactor == CalculateConsistencyFactor \/ CalculateAiFactor

SpecFactor == InitFactor /\ [][NextFactor]_vars

\* the call of the method op has returned
FactorReturned(op) == confCall # None /\ confCall.op = op /\ confCall.result # None

\* the penalties of C19 for the measurements m, in thousandths
ClaimedPenalties(m) ==
    Deduct(m.waist_circumference_cm > m.chest_circumference_cm, 100)
    + Deduct((m.muscle_definition = "high" /\ m.body_fat_percent > 2000)
                 \/ (m.muscle_definition = "low" /\ m.body_fat_percent < 1000), 150)
    + Deduct(m.bicep_circumference_cm > m.thigh_circumference_cm, 250)
    + Deduct(m.calf_circumference_cm > m.thigh_circumference_cm, 200)
    + Deduct(10 * m.shoulder_width_cm < 3 * m.chest_circumference_cm
                 \/ 10 * m.shoulder_width_cm > 8 * m.chest_circumference_cm, 150)

\* C19: with every field present, _calculate_consistency_factor returns
\* max(0, 1.0 - the penalties of the checks that trigger): 0.10 if waist >
\* chest, 0.15 if muscle definition and body fat disagree, 0.25 if bicep >
\* thigh, 0.20 if calf > thigh, 0.15 if shoulder_width / chest is below 0.3 or
\* above 0.8; the result is in [0, 1].
C19_ConsistencyFactor ==
    FactorReturned("_calculate_consistency_factor") =>
        /\ confCall.result.value = Max(0, 1000 - ClaimedPenalties(confCall.arguments))
        /\ confCall.result.value \in 0..1000

\* a shoulder width of exactly 0.8 of the chest, no other check triggering,
\* and a factor of 0.85
C19_RatioAtThresholdPenalised ==
    /\ FactorReturned("_calculate_consistency_factor")
    /\ confCall.arguments.shoulder_width_cm = 4084
    /\ confCall.arguments.chest_circumference_cm = 5105
    /\ ClaimedPenalties(confCall.arguments) = 0
    /\ confCall.result.value = 850

\* C20: _calculate_ai_factor("stop", "error_fix") lies in [0.70, 0.85).
C20_ErrorFixModeratelyPenalised ==
    (/\ FactorReturned("_calculate_ai_factor")
     /\ confCall.arguments.finish_reason = "stop"
     /\ confCall.arguments.extraction_strategy = "error_fix") =>
        (700 <= confCall.result.value /\ confCall.result.value < 850)

\* _calculate_ai_factor("stop", "error_fix") has returned 0.9
C20_ErrorFixScored ==
    /\ FactorReturned("_calculate_ai_factor")
    /\ confCall.arguments.finish_reason = "stop"
    /\ confCall.arguments.extraction_strategy = "error_fix"
    /\ confCall.result.value = 900

\* the extraction strategies of the lookup table strategy_scores
TableStrategies == {"direct_parse", "markdown_strip", "regex_extract", "error_fix", "ai_repair"}

\* C21: with finish reason "length", _calculate_ai_factor returns a value below
\* 0.80 for every extraction strategy of the lookup table, "direct_parse"
\* included.
C21_LengthFinishBelow80 ==
    (/\ FactorReturned("_calculate_ai_factor")
     /\ confCall.arguments.finish_reason = "length"
     /\ confCall.arguments.extraction_strategy \in TableStrategies) =>
        confCall.result.value < 800

\* _calculate_ai_factor("length", "direct_parse") has returned 0.82
C21_LengthDirectParseScored ==
    /\ FactorReturned("_calculate_ai_factor")
    /\ confCall.arguments.finish_reason = "length"
    /\ confCall.arguments.extraction_strategy = "direct_parse"
    /\ confCall.result.value = 820

-----------------------------------------------------------------------------
(* services/id_generator.py, compare_signature_ids.  The changes are doubles
   (see Fl); an interpretation is the tuple of the pieces of its f-string, a
   formatted number being the number of tenths. *)

\* the double float() gave for a component, a decimal of at most 3 places
FlOf(parsed_float) == Fl(parsed_float.num * Pow10(3 - parsed_float.places))

BodyFatInterpretation(body_fat_change) ==
    IF FlCompare(body_fat_change, Fl(0 - 1000)) < 0
    THEN <<"Lost ", Abs(FlRoundTo(body_fat_change, 100)) \div 100, "% body fat">>
    ELSE IF FlCompare(body_fat_change, Fl(1000)) > 0
    THEN <<"Gained ", FlRoundTo(body_fat_change, 100) \div 100, "% body fat">>
    ELSE <<"Minimal body fat change">>

ProportionInterpretation(adonis_index_change) ==
    IF FlCompare(adonis_index_change, Fl(50)) > 0
    THEN <<"Improved shoulder:waist ratio (better V-taper)">>
    ELSE IF FlCompare(adonis_index_change, Fl(0 - 50)) < 0
    THEN <<"Decreased shoulder:waist ratio">>
    ELSE <<"Proportions relatively unchanged">>

\* the comparison of two parsed IDs
IdComparisonOf(parsed1, parsed2, body_fat_change, adonis_index_change) ==
    [ body_type_changed         |-> parsed1.body_type # parsed2.body_type,
      body_fat_change           |-> body_fat_change,
      adonis_index_change       |-> adonis_index_change,
      composition_changed       |-> parsed1.composition_hash # parsed2.composition_hash,
      body_fat_interpretation   |-> BodyFatInterpretation(body_fat_change),
      proportion_interpretation |-> ProportionInterpretation(adonis_index_change) ]

CompareParsed(parsed1, parsed2) ==
    IF parsed1 = None \/ parsed2 = None THEN [error |-> "Invalid signature ID format"]
    ELSE IdComparisonOf(parsed1, parsed2,
                        FlSub(FlOf(parsed2.body_fat_percent), FlOf(parsed1.body_fat_percent)),
                        FlSub(FlOf(parsed2.adonis_index), FlOf(parsed1.adonis_index)))

compare_signature_ids(id1, id2) ==
    CompareParsed(parse_body_signature_id(id1), parse_body_signature_id(id2))

-----------------------------------------------------------------------------
(* Calls of compare_signature_ids: the two IDs are drawn when the call
   starts, the result is None until it returns.  The IDs are well-formed ones
   whose body fats and Adonis indexes differ by exactly 1 and 0.05, by more
   and by less, a well-formed one followed by a newline, and malformed
   ones. *)

IdBodyFats ==
    { <<51, 46, 52>>,   \* "3.4"
      <<52, 46, 52>>,   \* "4.4"
      <<49, 50, 46, 56>>,   \* "12.8"
      <<49, 52, 46, 53>>,   \* "14.5"
      <<49, 53, 46, 53>> }   \* "15.5"

IdAdonis ==
    { <<49, 46, 52, 57>>,   \* "1.49"
      <<49, 46, 53, 52>>,   \* "1.54"
      <<49, 46, 53, 55>>,   \* "1.57"
      <<49, 46, 54, 50>>,   \* "1.62"
      <<49, 46, 56, 48>> }   \* "1.80"

\* body type and hash: "VTaper" and "Classic", "A3F7C2" and "123456"
IdTypeHashes ==
    { <<<<86, 84, 97, 112, 101, 114>>, <<65, 51, 70, 55, 67, 50>>>>,
      <<<<67, 108, 97, 115, 115, 105, 99>>, <<65, 51, 70, 55, 67, 50>>>>,
      <<<<86, 84, 97, 112, 101, 114>>, <<49, 50, 51, 52, 53, 54>>>> }

ComparedIds ==
    { th[1] \o <<45, 66, 70>> \o bf \o <<45>> \o th[2] \o <<45, 65, 73>> \o ai :
          th \in IdTypeHashes, bf \in IdBodyFats, ai \in IdAdonis }
    \cup { Join5(GoodPieces) \o <<10>>,   \* "VTaper-BF15.5-A3F7C2-AI1.54\n"
           Join5(GoodPieces) \o <<120>>,   \* "VTaper-BF15.5-A3F7C2-AI1.54x"
           GoodPieces[1] \o GoodPieces[2] \o GoodPieces[3],   \* "VTaper-BF15.5-A3F7C2"
           << >> }

InitIds ==
    /\ now = 0
    /\ limiter = None
    /\ pool = None
    /\ retry = None
    /\ scanCall = None
    /\ hashCalls = << >>
    /\ hashCheck = None
    /\ sigCall = None
    /\ parseCall = None
    /\ typeCall = None
    /\ goldenCalls = << >>
    /\ scoreCall = None
    /\ confCall = None
    /\ ratioCall = None
    /\ compareCall \in [ id1 : ComparedIds, id2 : ComparedIds, result : {None} ]
    /\ validationCall = None

CompareSignatureIds ==
    /\ compareCall # None
    /\ compareCall.result = None
    /\ compareCall' = [compareCall EXCEPT !.result = compare_signature_ids(compareCall.id1, compareCall.id2)]
    /\ UNCHANGED <<limiter, pool, retry, scanCall, now, hashCalls, hashCheck, sigCall, parseCall, typeCall, goldenCalls, scoreCall, confCall, ratioCall, validationCall>>

NextIds == CompareSignatureIds

SpecIds == InitIds /\ [][NextIds]_vars

-----------------------------------------------------------------------------
(* Claims about compare_signature_ids. *)

IdsCompared == compareCall # None /\ compareCall.result # None

\* the decimal of a parsed component, in thousandths
Thousandths(parsed_float) == parsed_float.num * Pow10(3 - parsed_float.places)

\* what C22 states of the comparison of two parsed IDs, bf and ai being the
\* decimal changes in thousandths
ClaimedComparison(parsed1, parsed2, result, bf, ai) ==
    /\ DOMAIN result # {"error"}
    /\ result.body_fat_change.k = bf
    /\ result.adonis_index_change.k = ai
    /\ result.body_type_changed <=> parsed1.body_type # parsed2.body_type
    /\ result.composition_changed <=> parsed1.composition_hash # parsed2.composition_hash
    /\ result.body_fat_interpretation[1] = "Lost " <=> bf < 0 - 1000
    /\ result.body_fat_interpretation[1] = "Gained " <=> bf > 1000
    /\ result.body_fat_interpretation = <<"Minimal body fat change">> <=> (bf >= 0 - 1000 /\ bf <= 1000)
    /\ result.proportion_interpretation = <<"Improved shoulder:waist ratio (better V-taper)">> <=> ai > 50
    /\ result.proportion_interpretation = <<"Decreased shoulder:waist ratio">> <=> ai < 0 - 50
    /\ result.proportion_interpretation = <<"Proportions relatively unchanged">> <=> (ai >= 0 - 50 /\ ai <= 50)

ClaimedIdComparison(parsed1, parsed2, result) ==
    IF parsed1 = None \/ parsed2 = None THEN result = [error |-> "Invalid signature ID format"]
    ELSE ClaimedComparison(parsed1, parsed2, result,
                           Thousandths(parsed2.body_fat_percent) - Thousandths(parsed1.body_fat_percent),
                           Thousandths(parsed2.adonis_index) - Thousandths(parsed1.adonis_index))

\* C22: compare_signature_ids returns only an error entry when either ID
\* fails to parse; otherwise the changes are the value of id2 minus that of
\* id1, the flags tell whether body type and hash differ, the body fat
\* interpretation is "Lost" iff the change is < -1, "Gained" iff it is > 1 and
\* minimal otherwise, and the proportion interpretation is "Improved" iff the
\* Adonis change is > 0.05, "Decreased" iff it is < -0.05 and unchanged
\* otherwise.
C22_IdComparison ==
    IdsCompared =>
        ClaimedIdComparison(parse_body_signature_id(compareCall.id1),
                            parse_body_signature_id(compareCall.id2), compareCall.result)

\* body fat 3.4 in the first ID and 4.4 in the second, a change of 1, and
\* the interpretation "Gained 1.0% body fat"
C22_UnitChangeGained ==
    /\ IdsCompared
    /\ DOMAIN compareCall.result # {"error"}
    /\ parse_body_signature_id(compareCall.id1).body_fat_percent = [num |-> 34, places |-> 1]
    /\ parse_body_signature_id(compareCall.id2).body_fat_percent = [num |-> 44, places |-> 1]
    /\ compareCall.result.body_fat_change.k = 1000
    /\ compareCall.result.body_fat_interpretation = <<"Gained ", 10, "% body fat">>

-----------------------------------------------------------------------------
(* services/hash_generator.py: similarity, collisions and uniqueness.  A
   similarity is in thousandths of a percent; an Optional[str] is the empty
   sequence for None and the sequence of the one string otherwise. *)

\* sum(1 for c1, c2 in zip(hash1, hash2) if c1 == c2)
MatchCount(hash1, hash2) ==
    Cardinality({ i \in 1..Min(Len(hash1), Len(hash2)) : hash1[i] = hash2[i] })

\* (matches / 6) * 100, truncated to thousandths: 0, 50 and 100 are exact
check_hash_similarity(hash1, hash2) ==
    IF ~validate_hash_format(hash1) \/ ~validate_hash_format(hash2) THEN 0
    ELSE (MatchCount(hash1, hash2) * 100000) \div 6

RECURSIVE detect_hash_collision(_, _, _)
\* the first existing hash at least threshold similar to new_hash
detect_hash_collision(new_hash, existing_hashes, threshold) ==
    IF existing_hashes = << >> THEN << >>
    ELSE IF check_hash_similarity(new_hash, Head(existing_hashes)) >= threshold
         THEN << Head(existing_hashes) >>
         ELSE detect_hash_collision(new_hash, Tail(existing_hashes), threshold)

\* bool(collision) for an Optional[str]
Truthy(optional_str) == optional_str # << >> /\ optional_str[1] # << >>

validate_hash_uniqueness(hash_str, user_id, existing_scans) ==
    IF existing_scans = << >> THEN TRUE
    ELSE ~Truthy(detect_hash_collision(hash_str, existing_scans, 100000))

-----------------------------------------------------------------------------
(* Calls of the three functions on hashes generate_composition_hash returned
   for the measurements of the model, against lists of such hashes. *)

GeneratedHashes == { t.hash : t \in HashTable }

MaxExisting == 4   \* the longest list of existing hashes

ExistingLists == UNION { [1..n -> GeneratedHashes] : n \in 0..MaxExisting }

ValidateHashUniqueness ==
    /\ \E h \in GeneratedHashes, u \in Users, existing \in ExistingLists :
           hashCheck' = [ op |-> "validate_hash_uniqueness", hash_str |-> h, user_id |-> u,
                          existing |-> existing, result |-> validate_hash_uniqueness(h, u, existing) ]
    /\ UNCHANGED <<limiter, pool, retry, scanCall, now, hashCalls, sigCall, parseCall, typeCall, goldenCalls, scoreCall, confCall, ratioCall, compareCall, validationCall>>

DetectHashCollision ==
    /\ \E h \in GeneratedHashes, existing \in ExistingLists :
           hashCheck' = [ op |-> "detect_hash_collision", hash_str |-> h,
                          existing |-> existing, result |-> detect_hash_collision(h, existing, 100000) ]
    /\ UNCHANGED <<limiter, pool, retry, scanCall, now, hashCalls, sigCall, parseCall, typeCall, goldenCalls, scoreCall, confCall, ratioCall, compareCall, validationCall>>

CheckHashSimilarity ==
    /\ \E h1 \in GeneratedHashes, h2 \in GeneratedHashes :
           hashCheck' = [ op |-> "check_hash_similarity", hash_str |-> h1,
                          existing |-> <<h2>>, result |-> check_hash_similarity(h1, h2) ]
    /\ UNCHANGED <<limiter, pool, retry, scanCall, now, hashCalls, sigCall, parseCall, typeCall, goldenCalls, scoreCall, confCall, ratioCall, compareCall, validationCall>>

NextUnique == ValidateHashUniqueness \/ DetectHashCollision \/ CheckHashSimilarity

SpecUnique == Init /\ [][NextUnique]_vars

\* the last call was of the function op
HashChecked(op) == hashCheck # None /\ hashCheck.op = op

\* h is an element of the list
InList(h, list) == \E i \in DOMAIN list : list[i] = h

\* C23: for generated hashes and a non-empty list of them,
\* validate_hash_uniqueness returns False iff the hash is an element of the
\* list, detect_hash_collision with threshold 100 then returns that element,
\* and check_hash_similarity(h, h) is 100.
C23_ExactCollisionDetected ==
    /\ (HashChecked("validate_hash_uniqueness") /\ hashCheck.existing # << >>) =>
           (hashCheck.result = FALSE <=> InList(hashCheck.hash_str, hashCheck.existing))
    /\ (HashChecked("detect_hash_collision") /\ InList(hashCheck.hash_str, hashCheck.existing)) =>
           hashCheck.result = << hashCheck.hash_str >>
    /\ (HashChecked("check_hash_similarity") /\ hashCheck.existing = << hashCheck.hash_str >>) =>
           hashCheck.result = 100000

\* a generated hash of digits only, checked against a list that holds it,
\* was found unique
C23_DigitsOnlyCollisionMissed ==
    /\ HashChecked("validate_hash_uniqueness")
    /\ \A i \in 1..Len(hashCheck.hash_str) : IsDigitChar(hashCheck.hash_str[i])
    /\ InList(hashCheck.hash_str, hashCheck.existing)
    /\ hashCheck.result = TRUE

-----------------------------------------------------------------------------
(* classify_body_type on ratios in the V-Taper range. *)

\* the V-Taper condition of the classifier and of simple_test_math.py
InVTaperRange(ratios) ==
    ratios.shoulder_to_waist_ratio >= 1400 /\ ratios.chest_to_waist_ratio >= 1300

\* C24: whenever the shoulder-to-waist ratio is >= 1.4 and the chest-to-waist
\* ratio is >= 1.3, the body type is V-Taper, whatever the waist-to-hip
\* ratio, the symmetry score and the body fat are.
C24_VTaperRangeIsVTaper ==
    (typeCall # None /\ typeCall.result # None /\ InVTaperRange(typeCall.ratios)) =>
        typeCall.result[1] = "VTAPER"

\* the "V-Taper (Athletic)" scenario (1.55, 1.35, body fat 12.0) with a
\* symmetry score of 80 was classified as Classic
C24_AthleticScenarioClassic ==
    /\ typeCall # None
    /\ typeCall.result # None
    /\ typeCall.ratios.shoulder_to_waist_ratio = 1550
    /\ typeCall.ratios.chest_to_waist_ratio = 1350
    /\ typeCall.ratios.symmetry_score = 800
    /\ typeCall.measurements.body_fat_percent = 1200
    /\ typeCall.result = <<"CLASSIC", 85>>

-----------------------------------------------------------------------------
(* services/scan_assembler.py: assemble_scan_result and
   generate_quick_summary.  The image dictionaries, the WHOOP data and the
   processing time are stored as passed and are left out. *)

\* the measurements of test_steps_10_16.py (athletic, beginner, advanced), the
\* athletic ones without the optional shoulder width and calf (0 for None)
\* and the advanced ones without the shoulder width, in hundredths
AssembleMeasurements ==
    { [ chest_circumference_cm |-> 10500, waist_circumference_cm |-> 8000,
        hip_circumference_cm |-> 9500, bicep_circumference_cm |-> 3800,
        thigh_circumference_cm |-> 5800, calf_circumference_cm |-> 3800,
        shoulder_width_cm |-> 4800, body_fat_percent |-> 1250, posture_rating |-> 850 ],
      [ chest_circumference_cm |-> 9500, waist_circumference_cm |-> 8800,
        hip_circumference_cm |-> 9600, bicep_circumference_cm |-> 3200,
        thigh_circumference_cm |-> 5400, calf_circumference_cm |-> 3600,
        shoulder_width_cm |-> 4200, body_fat_percent |-> 2200, posture_rating |-> 650 ],
      [ chest_circumference_cm |-> 11000, waist_circumference_cm |-> 7800,
        hip_circumference_cm |-> 9800, bicep_circumference_cm |-> 4200,
        thigh_circumference_cm |-> 6200, calf_circumference_cm |-> 4000,
        shoulder_width_cm |-> 5200, body_fat_percent |-> 850, posture_rating |-> 900 ],
      [ chest_circumference_cm |-> 10500, waist_circumference_cm |-> 8000,
        hip_circumference_cm |-> 9500, bicep_circumference_cm |-> 3800,
        thigh_circumference_cm |-> 5800, calf_circumference_cm |-> 0,
        shoulder_width_cm |-> 0, body_fat_percent |-> 1255, posture_rating |-> 850 ],
      [ chest_circumference_cm |-> 11000, waist_circumference_cm |-> 7800,
        hip_circumference_cm |-> 9800, bicep_circumference_cm |-> 4200,
        thigh_circumference_cm |-> 6200, calf_circumference_cm |-> 4000,
        shoulder_width_cm |-> 0, body_fat_percent |-> 850, posture_rating |-> 900 ] }

\* None, "male", "female"
AssembleGenders == { <<>>, <<109, 97, 108, 101>>, <<102, 101, 109, 97, 108, 101>> }

\* ConfidenceMetrics objects: the fields models/schemas.py declares, scores
\* in thousandths
AssembleConfidences ==
    { [ overall_score |-> s, photo_count_factor |-> 1000, consistency_factor |-> 1000,
        ai_confidence_factor |-> 1000, data_completeness_factor |-> 880,
        validation_quality_factor |-> 1000, meets_threshold |-> s >= MinConfidenceScore ] :
          s \in {650, 700, 920} }

ScanIds == {"scan-1", "scan-2"}   \* values of str(uuid.uuid4())

\* getattr(confidence, name) on a ConfidenceMetrics: a declared field, one of
\* the two properties, or AttributeError
ConfidenceAttribute(confidence, name) ==
    IF name \in DOMAIN confidence THEN [value |-> confidence[name]]
    ELSE IF name = "overall_confidence" THEN [value |-> confidence.overall_score]
    ELSE IF name = "measurement_completeness"
    THEN [value |-> confidence.data_completeness_factor]
    ELSE [raises |-> "AttributeError", attribute |-> name]

\* generate_composition_hash on the ratios calculate_all_body_ratios gives for
\* the measurements of the model, computed once
AssembledHashTable ==
    UNION { { [measurements |-> m, ratios |-> o.value,
               hash |-> generate_composition_hash(m, o.value)] :
                  o \in { x \in calculate_all_body_ratios(m, <<>>) : "value" \in DOMAIN x } } :
                m \in AssembleMeasurements }

AssembledHashOf(m, r) ==
    (CHOOSE t \in AssembledHashTable :
         /\ t.measurements = m
         /\ t.ratios.shoulder_to_waist_ratio = r.shoulder_to_waist_ratio
         /\ t.ratios.waist_to_hip_ratio = r.waist_to_hip_ratio
         /\ t.ratios.chest_to_waist_ratio = r.chest_to_waist_ratio).hash

\* the lines assemble_scan_result prints, by their prefixes
StagesPrinted(is_unique) ==
    <<"[Step 11]", "[Step 12]", "[Step 13]">>
        \o (IF is_unique THEN <<>> ELSE <<"[WARNING]">>)
        \o <<"[Step 14]", "[Step 14]", "[Step 15]", "[Step 16]", "[COMPLETE]">>

\* the ScanResult objects built from the ratios: steps 13 to 16
ScanResultsOf(user_id, measurements, confidence, body_ratios, timestamp) ==
    LET composition_hash == AssembledHashOf(measurements, body_ratios)
        is_unique == validate_hash_uniqueness(composition_hash, user_id, <<>>)
        classified == classify_body_type(body_ratios, measurements)
    IN  { [ value |->
              [ scan_id           |-> scan_id,
                body_signature_id |-> generate_body_signature_id(
                                          classified[1], measurements.body_fat_percent,
                                          composition_hash, body_ratios.adonis_index),
                user_id           |-> user_id,
                timestamp         |-> timestamp,
                measurements      |-> measurements,
                ratios            |-> body_ratios,
                aesthetic_score   |-> aesthetic_score,
                composition_hash  |-> composition_hash,
                confidence        |-> confidence,
                api_version       |-> "2.0" ],
            printed |-> StagesPrinted(is_unique) ] :
              scan_id \in ScanIds,
              aesthetic_score \in calculate_aesthetic_score(body_ratios, classified[1],
                                                            measurements, classified[2]) }

\* the outcomes of assemble_scan_result: an exception of
\* calculate_all_body_ratios propagates
assemble_scan_result(user_id, measurements, confidence, gender, timestamp) ==
    UNION { IF "raises" \in DOMAIN o THEN { o }
            ELSE ScanResultsOf(user_id, measurements, confidence, o.value, timestamp) :
                o \in calculate_all_body_ratios(measurements, gender) }

\* the "performance" entry
PerformanceOf(overall_score) ==
    IF overall_score >= 8000 THEN "Excellent physique"
    ELSE IF overall_score >= 7000 THEN "Good physique"
    ELSE IF overall_score >= 6000 THEN "Average physique"
    ELSE "Room for improvement"

\* the summary dictionary, its display entries evaluated in order: the first
\* attribute that is missing raises
generate_quick_summary(scan_result) ==
    LET overall_confidence == ConfidenceAttribute(scan_result.confidence, "overall_confidence")
        is_reliable == ConfidenceAttribute(scan_result.confidence, "is_reliable")
    IN  IF "raises" \in DOMAIN overall_confidence THEN overall_confidence
        ELSE IF "raises" \in DOMAIN is_reliable THEN is_reliable
        ELSE [ value |->
                 [ body_signature   |-> scan_result.body_signature_id,
                   body_type        |-> BodyTypeValue(scan_result.aesthetic_score.body_type),
                   overall_score    |-> scan_result.aesthetic_score.overall_score,
                   body_fat_percent |-> scan_result.measurements.body_fat_percent,
                   adonis_index     |-> scan_result.ratios.adonis_index,
                   symmetry_score   |-> scan_result.ratios.symmetry_score,
                   confidence       |-> overall_confidence.value,
                   is_reliable      |-> is_reliable.value,
                   performance      |-> PerformanceOf(scan_result.aesthetic_score.overall_score) ] ]

-----------------------------------------------------------------------------
(* Calls of assemble_scan_result, and of generate_quick_summary on the
   ScanResult it returned. *)

InitAssemble ==
    /\ now = 0
    /\ limiter = None
    /\ pool = None
    /\ retry = None
    /\ scanCall \in [ user_id : Users, measurements : AssembleMeasurements,
                       confidence : AssembleConfidences, gender : AssembleGenders,
                       result : {None}, summary : {None} ]
    /\ hashCalls = <<>>
    /\ hashCheck = None
    /\ sigCall = None
    /\ parseCall = None
    /\ typeCall = None
    /\ goldenCalls = <<>>
    /\ scoreCall = None
    /\ confCall = None
    /\ ratioCall = None
    /\ compareCall = None
    /\ validationCall = None

AssembleScanResult ==
    /\ scanCall # None
    /\ scanCall.result = None
    /\ \E outcome \in assemble_scan_result(scanCall.user_id, scanCall.measurements,
                                           scanCall.confidence, scanCall.gender, now) :
           scanCall' = [scanCall EXCEPT !.result = outcome]
    /\ now' = now + 1
    /\ UNCHANGED <<limiter, pool, retry, hashCalls, hashCheck, sigCall, parseCall, typeCall, goldenCalls, scoreCall, confCall, ratioCall, compareCall, validationCall>>

GenerateQuickSummary ==
    /\ scanCall # None
    /\ scanCall.result # None
    /\ "value" \in DOMAIN scanCall.result
    /\ scanCall.summary = None
    /\ scanCall' = [scanCall EXCEPT !.summary = generate_quick_summary(scanCall.result.value)]
    /\ UNCHANGED <<limiter, pool, retry, now, hashCalls, hashCheck, sigCall, parseCall, typeCall, goldenCalls, scoreCall, confCall, ratioCall, compareCall, validationCall>>

NextAssemble == AssembleScanResult \/ GenerateQuickSummary

SpecAssemble == InitAssemble /\ [][NextAssemble]_vars

\* assemble_scan_result returned a ScanResult
Assembled == scanCall # None /\ scanCall.result # None /\ "value" \in DOMAIN scanCall.result

\* generate_quick_summary was called on the assembled ScanResult and ended
Summarised == Assembled /\ scanCall.summary # None

SummaryKeys ==
    { "body_signature", "body_type", "overall_score", "body_fat_percent", "adonis_index",
      "symmetry_score", "confidence", "is_reliable", "performance" }

\* C25: for every ScanResult assemble_scan_result returns,
\* generate_quick_summary completes without error and returns a summary with
\* the nine entries, each read from a field the objects define.
C25_SummaryCompletes ==
    Summarised =>
        /\ "value" \in DOMAIN scanCall.summary
        /\ DOMAIN scanCall.summary.value = SummaryKeys

\* generate_quick_summary was called on the ScanResult of the athletic
\* measurements and raised AttributeError on is_reliable
C25_AthleticSummaryRaised ==
    /\ Summarised
    /\ scanCall.measurements.shoulder_width_cm = 4800
    /\ scanCall.summary = [raises |-> "AttributeError", attribute |-> "is_reliable"]

\* the signature ID of the assembled ScanResult, parsed
ParsedSignature == parse_body_signature_id(scanCall.result.value.body_signature_id)

\* C30: every ScanResult assemble_scan_result returns is consistent: its
\* signature ID parses, the parsed hash is its composition_hash, the parsed
\* body type is the display name of its body type without spaces and
\* hyphens, the parsed body fat is the body fat rounded to 1 decimal, the
\* parsed Adonis Index is the Adonis Index rounded to 2 decimals, its
\* measurements and confidence are the arguments, and the stages ran in the
\* order ratios, asymmetries, hash, classification and score, signature ID.
C30_ScanResultConsistent ==
    Assembled =>
        /\ ParsedSignature # None
        /\ ParsedSignature.composition_hash = scanCall.result.value.composition_hash
        /\ ParsedSignature.body_type
               = WithoutSpacesAndHyphens(BodyTypeValue(scanCall.result.value.aesthetic_score.body_type))
        /\ Thousandths(ParsedSignature.body_fat_percent)
               = 100 * RoundDiv10(scanCall.result.value.measurements.body_fat_percent, 100)
        /\ Thousandths(ParsedSignature.adonis_index)
               = 10 * RoundDiv10(scanCall.result.value.ratios.adonis_index, 1000)
        /\ scanCall.result.value.measurements = scanCall.measurements
        /\ scanCall.result.value.confidence = scanCall.confidence
        /\ scanCall.result.printed
               = <<"[Step 11]", "[Step 12]", "[Step 13]", "[Step 14]", "[Step 14]",
                   "[Step 15]", "[Step 16]", "[COMPLETE]">>

\* a V-Taper ScanResult was assembled, and its ID parses to VTaper and the
\* body fat 8.5
C30_VTaperAssembled ==
    /\ Assembled
    /\ scanCall.result.value.aesthetic_score.body_type = "VTAPER"
    /\ ParsedSignature # None
    /\ ParsedSignature.body_type = <<86, 84, 97, 112, 101, 114>>
    /\ Thousandths(ParsedSignature.body_fat_percent) = 8500

-----------------------------------------------------------------------------
(* services/confidence_scorer.py on BodyMeasurements whose optional fields
   calf_circumference_cm and shoulder_width_cm may be None: here an
   Optional[float] is << >> for None and <<x>> for the number x. *)

\* the measurements with the numbers of the two optional fields
Present(measurements) ==
    [ chest_circumference_cm |-> measurements.chest_circumference_cm,
      shoulder_width_cm      |-> measurements.shoulder_width_cm[1],
      waist_circumference_cm |-> measurements.waist_circumference_cm,
      bicep_circumference_cm |-> measurements.bicep_circumference_cm,
      thigh_circumference_cm |-> measurements.thigh_circumference_cm,
      calf_circumference_cm  |-> measurements.calf_circumference_cm[1],
      body_fat_percent       |-> measurements.body_fat_percent,
      muscle_definition      |-> measurements.muscle_definition ]

\* _calculate_consistency_factor: check 4 compares the calf with the thigh
\* and check 5 divides the shoulder width by the chest, and None supports
\* neither operation
ConsistencyFactorOutcome(measurements) ==
    IF measurements.calf_circumference_cm = << >>
    THEN [raises |-> "TypeError", operation |-> ">"]
    ELSE IF measurements.shoulder_width_cm = << >>
    THEN [raises |-> "TypeError", operation |-> "/"]
    ELSE [value |-> _calculate_consistency_factor(Present(measurements))]

\* calculate_scan_confidence passes its arguments to calculate_confidence,
\* from which the exception of the consistency factor propagates
calculate_scan_confidence(measurements, photo_count, completeness_score, ai_finish_reason, extraction_strategy, validation_errors) ==
    IF "raises" \in DOMAIN ConsistencyFactorOutcome(measurements)
    THEN ConsistencyFactorOutcome(measurements)
    ELSE [value |-> calculate_confidence(Present(measurements), photo_count,
                                         completeness_score, ai_finish_reason,
                                         extraction_strategy, validation_errors)]

-----------------------------------------------------------------------------
(* Calls of calculate_scan_confidence on schema-valid measurements. *)

OptionalMeasurements ==
    [ chest_circumference_cm : {10000},
      shoulder_width_cm      : {<< >>, <<4500>>, <<8000>>},
      waist_circumference_cm : {8500, 12500},
      bicep_circumference_cm : {3500},
      thigh_circumference_cm : {5500},
      calf_circumference_cm  : {<< >>, <<3800>>, <<5700>>},
      body_fat_percent       : {1500},
      muscle_definition      : {"moderate"} ]

ScanConfidenceArguments ==
    [ measurements        : OptionalMeasurements,
      photo_count         : 1..3,
      completeness_score  : {500, 1000},
      ai_finish_reason    : {"stop", "length"},
      extraction_strategy : {"direct_parse"},
      validation_errors   : { ErrorList(0) } ]

InitScanConfidence ==
    /\ now = 0
    /\ limiter = None
    /\ pool = None
    /\ retry = None
    /\ scanCall = None
    /\ hashCalls = << >>
    /\ hashCheck = None
    /\ sigCall = None
    /\ parseCall = None
    /\ typeCall = None
    /\ goldenCalls = << >>
    /\ scoreCall = None
    /\ confCall \in { [op |-> "calculate_scan_confidence", arguments |-> a, result |-> None] :
                         a \in ScanConfidenceArguments }
    /\ ratioCall = None
    /\ compareCall = None
    /\ validationCall = None

CalculateScanConfidence ==
    /\ confCall # None
    /\ confCall.op = "calculate_scan_confidence"
    /\ confCall.result = None
    /\ confCall' = [confCall EXCEPT !.result =
           calculate_scan_confidence(confCall.arguments.measurements,
                                     confCall.arguments.photo_count,
                                     confCall.arguments.completeness_score,
                                     confCall.arguments.ai_finish_reason,
                                     confCall.arguments.extraction_strategy,
                                     confCall.arguments.validation_errors)]
    /\ UNCHANGED <<limiter, pool, retry, scanCall, now, hashCalls, hashCheck, sigCall, parseCall, typeCall, goldenCalls, scoreCall, ratioCall, compareCall, validationCall>>

NextScanConfidence == CalculateScanConfidence

SpecScanConfidence == InitScanConfidence /\ [][NextScanConfidence]_vars

\* C29: calculate_confidence returns a ConfidenceMetrics for every
\* schema-valid BodyMeasurements, also when the optional calf circumference
\* or the optional shoulder width is absent.
C29_ConfidenceReturned ==
    FactorReturned("calculate_scan_confidence") => "value" \in DOMAIN confCall.result

\* the call with a calf circumference and no shoulder width raised TypeError
\* on the division
C29_AbsentShoulderRaised ==
    /\ FactorReturned("calculate_scan_confidence")
    /\ confCall.arguments.measurements.calf_circumference_cm = <<3800>>
    /\ confCall.arguments.measurements.shoulder_width_cm = << >>
    /\ confCall.result = [raises |-> "TypeError", operation |-> "/"]

-----------------------------------------------------------------------------
(* services/error_handler.py: ErrorHandler.with_retry.  One call of the
   wrapped function: async_wrapper and sync_wrapper run the same loop, and
   the delays are in tenths of a second, on_retry tells whether a callback
   was given, and the positions are "try" (about to invoke func), "sleep" (waiting before
   the next attempt), "exhausted" (after the loop), "returned" and "raised". *)

MaxAttempts == 3   \* the largest max_attempts

\* what one invocation of func can do: return, raise an exception of the
\* tuple exceptions, raise another exception
FuncOutcomes == {"returns", "raises listed", "raises unlisted"}

\* a retry announced after the last attempt as well
RetryAnnouncedAlways(attempt, max_attempts) == attempt <= max_attempts

\* if attempt < max_attempts: the failure is announced and slept on
RetryAnnounced(attempt, max_attempts) == attempt < max_attempts

\* the exception attempt raised
ExceptionOf(attempt, listed) == [attempt |-> attempt, listed |-> listed]

InitRetry ==
    /\ now = 0
    /\ limiter = None
    /\ pool = None
    /\ retry \in { [ wrapper |-> w, max_attempts |-> n, delay_seconds |-> d,
                       backoff_factor |-> 2, on_retry |-> c, attempt |-> 1, delay |-> d,
                       invoked |-> << >>, on_retry_calls |-> << >>,
                       last_exception |-> None, pc |-> "try", outcome |-> None ] :
                         w \in {"async_wrapper", "sync_wrapper"}, n \in 1..MaxAttempts,
                         d \in {1, 10}, c \in BOOLEAN }
    /\ scanCall = None
    /\ hashCalls = << >>
    /\ hashCheck = None
    /\ sigCall = None
    /\ parseCall = None
    /\ typeCall = None
    /\ goldenCalls = << >>
    /\ scoreCall = None
    /\ confCall = None
    /\ ratioCall = None
    /\ compareCall = None
    /\ validationCall = None

\* try: return func(*args, **kwargs), with the except clause: a listed
\* exception is kept and, before the last attempt, reported to on_retry
InvokeFunc ==
    /\ retry # None
    /\ retry.pc = "try"
    /\ \E o \in FuncOutcomes :
         retry' =
           IF o = "returns"
           THEN [retry EXCEPT !.invoked = Append(@, o), !.pc = "returned",
                              !.outcome = [value |-> retry.attempt]]
           ELSE IF o = "raises unlisted"
           THEN [retry EXCEPT !.invoked = Append(@, o), !.pc = "raised",
                              !.outcome = [raises |-> ExceptionOf(retry.attempt, FALSE)]]
           ELSE IF RetryAnnounced(retry.attempt, retry.max_attempts)
           THEN [retry EXCEPT !.invoked = Append(@, o), !.pc = "sleep",
                              !.last_exception = ExceptionOf(retry.attempt, TRUE),
                              !.on_retry_calls =
                                  IF retry.on_retry
                                  THEN Append(@, <<retry.attempt, ExceptionOf(retry.attempt, TRUE)>>)
                                  ELSE @]
           ELSE [retry EXCEPT !.invoked = Append(@, o), !.pc = "exhausted",
                              !.last_exception = ExceptionOf(retry.attempt, TRUE)]
    /\ UNCHANGED <<limiter, pool, scanCall, now, hashCalls, hashCheck, sigCall, parseCall, typeCall, goldenCalls, scoreCall, confCall, ratioCall, compareCall, validationCall>>

\* sleep(delay); delay *= backoff_factor; the next attempt of
\* range(1, max_attempts + 1), if any
SleepBeforeRetry ==
    /\ retry # None
    /\ retry.pc = "sleep"
    /\ retry' = IF retry.attempt < retry.max_attempts
                THEN [retry EXCEPT !.delay = @ * retry.backoff_factor,
                                   !.attempt = @ + 1,
                                   !.pc = "try"]
                ELSE [retry EXCEPT !.delay = @ * retry.backoff_factor,
                                   !.pc = "exhausted"]
    /\ now' = now + retry.delay
    /\ UNCHANGED <<limiter, pool, scanCall, hashCalls, hashCheck, sigCall, parseCall, typeCall, goldenCalls, scoreCall, confCall, ratioCall, compareCall, validationCall>>

\* raise last_exception
RaiseLastException ==
    /\ retry # None
    /\ retry.pc = "exhausted"
    /\ retry' = [retry EXCEPT !.pc = "raised", !.outcome = [raises |-> retry.last_exception]]
    /\ UNCHANGED <<limiter, pool, scanCall, now, hashCalls, hashCheck, sigCall, parseCall, typeCall, goldenCalls, scoreCall, confCall, ratioCall, compareCall, validationCall>>

NextRetry == InvokeFunc \/ SleepBeforeRetry \/ RaiseLastException

SpecRetry == InitRetry /\ [][NextRetry]_vars

\* the wrapper has returned or raised
RetryEnded == retry # None /\ retry.pc \in {"returned", "raised"}

\* attempt k is the first that did not raise a listed exception
FirstNotListed(k) ==
    /\ k \in 1..Len(retry.invoked)
    /\ retry.invoked[k] # "raises listed"
    /\ \A i \in 1..(k - 1) : retry.invoked[i] = "raises listed"

\* all max_attempts attempts raised a listed exception
AllListed ==
    /\ Len(retry.invoked) = retry.max_attempts
    /\ \A i \in 1..Len(retry.invoked) : retry.invoked[i] = "raises listed"

\* func was invoked k times and on_retry, if given, k - 1 times
CalledTimes(k) ==
    /\ Len(retry.invoked) = k
    /\ retry.on_retry => Len(retry.on_retry_calls) = k - 1

\* the attempts are made one after another and never more than max_attempts
AttemptsInTurn ==
    /\ Len(retry.invoked) <= retry.max_attempts
    /\ Len(retry.invoked) \in {retry.attempt - 1, retry.attempt}
    /\ retry.pc = "try" <=> (Len(retry.invoked) = retry.attempt - 1)

\* C26: the wrapped function is invoked one attempt after another, at most
\* max_attempts times; if attempt k is the first that does not raise a
\* listed exception the wrapper ends with that attempt's outcome (its result
\* returned, or its exception raised) after exactly k invocations and k - 1
\* on_retry calls; if all attempts raise a listed exception the wrapper
\* raises the last one after max_attempts invocations and max_attempts - 1
\* on_retry calls.
C26_RetryCounts ==
    retry # None =>
        /\ AttemptsInTurn
        /\ \A k \in 1..MaxAttempts :
               FirstNotListed(k) =>
                   /\ RetryEnded
                   /\ CalledTimes(k)
                   /\ retry.outcome = IF retry.invoked[k] = "returns"
                                      THEN [value |-> k]
                                      ELSE [raises |-> ExceptionOf(k, FALSE)]
        /\ (RetryEnded /\ AllListed) =>
               /\ CalledTimes(retry.max_attempts)
               /\ retry.outcome = [raises |-> ExceptionOf(retry.max_attempts, TRUE)]
        /\ RetryEnded => (AllListed \/ \E k \in 1..MaxAttempts : FirstNotListed(k))

\* C26 as stated: the first attempt that does not raise a listed exception
\* has its result returned by the wrapper.
C26_FirstOtherAttemptReturns ==
    retry # None =>
        \A k \in 1..MaxAttempts :
            FirstNotListed(k) =>
                /\ RetryEnded
                /\ CalledTimes(k)
                /\ retry.outcome = [value |-> k]

\* the function failed twice and succeeded at the third of three attempts,
\* on_retry having been called twice
C26_ThirdAttemptReturned ==
    /\ retry # None
    /\ retry.max_attempts = 3
    /\ retry.on_retry
    /\ retry.invoked = <<"raises listed", "raises listed", "returns">>
    /\ retry.pc = "returned"
    /\ retry.outcome = [value |-> 3]
    /\ Len(retry.on_retry_calls) = 2

-----------------------------------------------------------------------------
(* services/performance_optimizer.py: parallel_execute.  asyncio.gather runs
   one bounded_task coroutine per task; each is "new" until it first runs,
   "waiting" in the queue of the semaphore, "admitted" once a release has
   passed it the slot, "running" inside async with (the body of the task),
   and then "done" or "failed".  asyncio.Semaphore is a counter with a queue
   of waiters served first come, first served. *)

MaxTasks == 3        \* the longest list of tasks

MaxConcurrent == 3   \* the largest max_concurrent

\* the semaphore lets a caller in at once with the counter at zero as well
SlotFreeAtZero(value) == value >= 0

\* Semaphore.acquire proceeds at once while the counter is positive
SlotFree(value) == value > 0

\* Semaphore.release: the slot passes to the first waiter, or the counter
\* goes up
Release(p) ==
    IF p.waiters # << >>
    THEN [p EXCEPT !.waiters = Tail(@), !.pc[Head(p.waiters)] = "admitted"]
    ELSE [p EXCEPT !.value = @ + 1]

InitParallel ==
    /\ now = 0
    /\ limiter = None
    /\ pool \in { [ max_concurrent |-> m, timeout |-> t, value |-> m, waiters |-> << >>,
                    pc |-> [i \in 1..n |-> "new"], runs |-> [i \in 1..n |-> 0],
                    outcome |-> None ] :
                      n \in 1..MaxTasks, m \in 1..MaxConcurrent, t \in BOOLEAN }
    /\ retry = None
    /\ scanCall = None
    /\ hashCalls = << >>
    /\ hashCheck = None
    /\ sigCall = None
    /\ parseCall = None
    /\ typeCall = None
    /\ goldenCalls = << >>
    /\ scoreCall = None
    /\ confCall = None
    /\ ratioCall = None
    /\ compareCall = None
    /\ validationCall = None

\* bounded_task(task) reaches async with semaphore: it enters and calls
\* task(), or waits
EnterSemaphore(i) ==
    /\ pool # None
    /\ i \in DOMAIN pool.pc
    /\ pool.pc[i] = "new"
    /\ pool' = IF SlotFree(pool.value)
               THEN [pool EXCEPT !.value = @ - 1, !.pc[i] = "running", !.runs[i] = @ + 1]
               ELSE [pool EXCEPT !.waiters = Append(@, i), !.pc[i] = "waiting"]
    /\ UNCHANGED <<limiter, retry, scanCall, now, hashCalls, hashCheck, sigCall, parseCall, typeCall, goldenCalls, scoreCall, confCall, ratioCall, compareCall, validationCall>>

\* a waiter that was passed the slot resumes and calls task()
ResumeWaiter(i) ==
    /\ pool # None
    /\ i \in DOMAIN pool.pc
    /\ pool.pc[i] = "admitted"
    /\ pool' = [pool EXCEPT !.pc[i] = "running", !.runs[i] = @ + 1]
    /\ UNCHANGED <<limiter, retry, scanCall, now, hashCalls, hashCheck, sigCall, parseCall, typeCall, goldenCalls, scoreCall, confCall, ratioCall, compareCall, validationCall>>

\* task() returns, and async with releases the semaphore
TaskReturns(i) ==
    /\ pool # None
    /\ i \in DOMAIN pool.pc
    /\ pool.pc[i] = "running"
    /\ pool' = Release([pool EXCEPT !.pc[i] = "done"])
    /\ UNCHANGED <<limiter, retry, scanCall, now, hashCalls, hashCheck, sigCall, parseCall, typeCall, goldenCalls, scoreCall, confCall, ratioCall, compareCall, validationCall>>

\* task() raises, or wait_for raises TimeoutError where a timeout is given,
\* and async with releases the semaphore
TaskRaises(i) ==
    /\ pool # None
    /\ i \in DOMAIN pool.pc
    /\ pool.pc[i] = "running"
    /\ \E error \in {"Exception"} \cup (IF pool.timeout THEN {"TimeoutError"} ELSE {}) :
           pool' = Release([pool EXCEPT !.pc[i] = error])
    /\ UNCHANGED <<limiter, retry, scanCall, now, hashCalls, hashCheck, sigCall, parseCall, typeCall, goldenCalls, scoreCall, confCall, ratioCall, compareCall, validationCall>>

\* asyncio.gather returns the results in the order of the tasks
GatherReturns ==
    /\ pool # None
    /\ pool.outcome = None
    /\ \A i \in DOMAIN pool.pc : pool.pc[i] = "done"
    /\ pool' = [pool EXCEPT !.outcome = [value |-> [i \in DOMAIN pool.pc |-> i]]]
    /\ UNCHANGED <<limiter, retry, scanCall, now, hashCalls, hashCheck, sigCall, parseCall, typeCall, goldenCalls, scoreCall, confCall, ratioCall, compareCall, validationCall>>

\* asyncio.gather raises the exception of a task as soon as one has failed;
\* the other tasks keep running
GatherRaises ==
    /\ pool # None
    /\ pool.outcome = None
    /\ \E i \in DOMAIN pool.pc :
           /\ pool.pc[i] \in {"Exception", "TimeoutError"}
           /\ pool' = [pool EXCEPT !.outcome = [raises |-> pool.pc[i]]]
    /\ UNCHANGED <<limiter, retry, scanCall, now, hashCalls, hashCheck, sigCall, parseCall, typeCall, goldenCalls, scoreCall, confCall, ratioCall, compareCall, validationCall>>

NextParallel ==
    \/ \E i \in 1..MaxTasks : EnterSemaphore(i)
    \/ \E i \in 1..MaxTasks : ResumeWaiter(i)
    \/ \E i \in 1..MaxTasks : TaskReturns(i)
    \/ \E i \in 1..MaxTasks : TaskRaises(i)
    \/ GatherReturns
    \/ GatherRaises

\* the event loop runs every coroutine that is ready, and the body of a
\* task ends: it returns unless it raises
SpecParallel ==
    /\ InitParallel
    /\ [][NextParallel]_vars
    /\ \A i \in 1..MaxTasks :
           /\ WF_vars(EnterSemaphore(i))
           /\ WF_vars(ResumeWaiter(i))
           /\ WF_vars(TaskReturns(i))
    /\ WF_vars(GatherReturns)

\* the tasks executing their body
Executing == { i \in DOMAIN pool.pc : pool.pc[i] = "running" }

\* task i has been started: task() was called
Started(i) == pool.runs[i] > 0

\* a slot is free for task i: the counter is positive, or the slot was
\* passed to it
SlotFreeFor(i) == pool.pc[i] = "admitted" \/ (pool.pc[i] = "new" /\ pool.value > 0)

\* at most max_concurrent tasks execute at once, no task is run twice, and
\* once gather has returned each task has been run exactly once
BoundedOnce ==
    pool # None =>
        /\ Cardinality(Executing) <= pool.max_concurrent
        /\ \A i \in DOMAIN pool.pc : pool.runs[i] <= 1
        /\ (pool.outcome # None /\ "value" \in DOMAIN pool.outcome) =>
               \A i \in DOMAIN pool.pc : pool.runs[i] = 1 /\ pool.pc[i] = "done"

-----------------------------------------------------------------------------
(* api/middleware/rate_limiter.py: RateLimiterMiddleware.  Timestamps are
   whole seconds of the clock now; a header that is absent is << >>, and the
   X-Forwarded-For header is the list of its comma separated entries. *)

MaxTime == 3       \* the clock stops here

MaxRequests == 4   \* the requests handled in a run

\* a timestamp at the cutoff is removed as well
ExpiredAtCutoff(timestamp, cutoff_time) == timestamp <= cutoff_time

\* timestamps[0] < cutoff_time
Expired(timestamp, cutoff_time) == timestamp < cutoff_time

RECURSIVE RemoveOld(_, _)
\* while timestamps and timestamps[0] < cutoff_time: timestamps.popleft()
RemoveOld(timestamps, cutoff_time) ==
    IF timestamps # << >> /\ Expired(Head(timestamps), cutoff_time)
    THEN RemoveOld(Tail(timestamps), cutoff_time)
    ELSE timestamps

_get_client_ip(request) ==
    IF request.forwarded_for # << >> THEN request.forwarded_for[1]
    ELSE IF request.real_ip # << >> THEN request.real_ip[1]
    ELSE IF request.client # << >> THEN request.client[1]
    ELSE "unknown"

\* request_history[client_ip] of a defaultdict: a new client gets an empty
\* deque
HistoryOf(request_history, client_ip) ==
    IF client_ip \in DOMAIN request_history THEN request_history[client_ip] ELSE << >>

\* the dictionary with the deque of client_ip replaced
WithHistory(request_history, client_ip, timestamps) ==
    [c \in DOMAIN request_history \cup {client_ip} |->
         IF c = client_ip THEN timestamps ELSE request_history[c]]

\* dispatch at the time t: the limiter after the request, with the response
\* (or the exception) in its log
DispatchOf(l, request, t) ==
    LET client_ip == _get_client_ip(request)
        timestamps == RemoveOld(HistoryOf(l.request_history, client_ip), t - l.window_size)
    IN  IF Len(timestamps) >= l.requests_per_minute
        THEN [l EXCEPT
                !.request_history = WithHistory(@, client_ip, timestamps),
                !.log = Append(@,
                    IF timestamps = << >>
                    THEN [client_ip |-> client_ip, now |-> t, raises |-> "IndexError"]
                    ELSE [client_ip |-> client_ip, now |-> t, status_code |-> 429,
                          retry_after |-> timestamps[1] + l.window_size - t,
                          remaining |-> 0])]
        ELSE [l EXCEPT
                !.request_history = WithHistory(@, client_ip, Append(timestamps, t)),
                !.log = Append(@,
                    [client_ip |-> client_ip, now |-> t, status_code |-> 200,
                     remaining |-> l.requests_per_minute - (Len(timestamps) + 1),
                     reset |-> l.window_size])]

\* requests through a proxy, with X-Real-IP, direct, and without a client
Requests ==
    { [forwarded_for |-> <<"10.0.0.1", "10.0.0.9">>, real_ip |-> << >>, client |-> <<"10.0.0.9">>],
      [forwarded_for |-> << >>, real_ip |-> <<"10.0.0.2">>, client |-> <<"10.0.0.9">>],
      [forwarded_for |-> << >>, real_ip |-> << >>, client |-> <<"10.0.0.1">>],
      [forwarded_for |-> << >>, real_ip |-> << >>, client |-> << >>] }

Clients == { _get_client_ip(request) : request \in Requests }

InitLimiter ==
    /\ now = 0
    /\ limiter \in { [ requests_per_minute |-> r, window_size |-> w,
                       request_history |-> << >>, log |-> << >> ] :
                         r \in 0..2, w \in 1..2 }
    /\ pool = None
    /\ retry = None
    /\ scanCall = None
    /\ hashCalls = << >>
    /\ hashCheck = None
    /\ sigCall = None
    /\ parseCall = None
    /\ typeCall = None
    /\ goldenCalls = << >>
    /\ scoreCall = None
    /\ confCall = None
    /\ ratioCall = None
    /\ compareCall = None
    /\ validationCall = None

\* time.time() moves on
ClockTicks ==
    /\ limiter # None
    /\ now < MaxTime
    /\ now' = now + 1
    /\ UNCHANGED <<limiter, pool, retry, scanCall, hashCalls, hashCheck, sigCall, parseCall, typeCall, goldenCalls, scoreCall, confCall, ratioCall, compareCall, validationCall>>

Dispatch ==
    /\ limiter # None
    /\ Len(limiter.log) < MaxRequests
    /\ \E request \in Requests : limiter' = DispatchOf(limiter, request, now)
    /\ UNCHANGED <<now, pool, retry, scanCall, hashCalls, hashCheck, sigCall, parseCall, typeCall, goldenCalls, scoreCall, confCall, ratioCall, compareCall, validationCall>>

NextLimiter == ClockTicks \/ Dispatch

SpecLimiter == InitLimiter /\ [][NextLimiter]_vars

\* the request of log entry e was admitted
Admitted(e) == "status_code" \in DOMAIN e /\ e.status_code = 200

\* the admitted requests of client_ip with timestamps from start to
\* start + window_size
AdmittedWithin(client_ip, start) ==
    { i \in DOMAIN limiter.log :
          /\ Admitted(limiter.log[i])
          /\ limiter.log[i].client_ip = client_ip
          /\ start <= limiter.log[i].now
          /\ limiter.log[i].now <= start + limiter.window_size }

\* no interval of window_size seconds holds more than requests_per_minute
\* admitted requests of a client
WindowBounded ==
    limiter # None =>
        \A client_ip \in Clients, start \in 0..MaxTime :
            Cardinality(AdmittedWithin(client_ip, start)) <= limiter.requests_per_minute

\* the step handles a request: it leaves the histories of the other clients
\* alone, and a request that is not admitted adds no timestamp to the history
\* of its client
DispatchStep ==
    (limiter # None /\ limiter' # limiter) =>
        LET e == limiter'.log[Len(limiter'.log)]
            before == HistoryOf(limiter.request_history, e.client_ip)
            after == limiter'.request_history[e.client_ip]
        IN  /\ \A c \in Clients \ {e.client_ip} :
                   /\ c \in DOMAIN limiter'.request_history <=> c \in DOMAIN limiter.request_history
                   /\ c \in DOMAIN limiter.request_history
                          => limiter'.request_history[c] = limiter.request_history[c]
            /\ ~Admitted(e) =>
                   /\ Len(after) <= Len(before)
                   /\ after = SubSeq(before, Len(before) - Len(after) + 1, Len(before))
            /\ Admitted(e) => after[Len(after)] = e.now

\* C28: for every client and every sequence of requests with non-decreasing
\* timestamps, at most requests_per_minute admitted requests have timestamps
\* inside any interval of window_size seconds; a rejected request is not
\* recorded in the client's history, and the requests of one client never
\* change the history of another.
C28_SlidingWindow == []WindowBounded /\ [][DispatchStep]_vars

\* with a limit of 2 in 1 second a client was admitted twice, rejected, and
\* admitted again 2 seconds later, while another client was admitted
C28_RejectedThenAdmitted ==
    /\ limiter # None
    /\ limiter.requests_per_minute = 2
    /\ limiter.window_size = 1
    /\ Len(limiter.log) = 4
    /\ \A i \in 1..2 : Admitted(limiter.log[i]) /\ limiter.log[i].client_ip = "10.0.0.1"
    /\ limiter.log[3].client_ip = "10.0.0.1"
    /\ ~Admitted(limiter.log[3])
    /\ limiter.log[3].now = limiter.log[1].now + 1
    /\ Admitted(limiter.log[4])
    /\ limiter.log[4].client_ip = "10.0.0.1"
    /\ limiter.log[4].now = limiter.log[1].now + 2

=============================================================================
